---- MODULE Spec2Model ----
(***************************************************************************)
(* Model of the ticket routing engine (routing.py) of datasaur26:          *)
(* assign_ticket and its helpers over an office list, a manager list and   *)
(* the persistent round-robin counter (RoutingState).                      *)
(*                                                                         *)
(* Conventions                                                             *)
(*  - A Python str is a sequence of one-character strings, so that         *)
(*    lower(), strip() and the `in` substring test are computed.           *)
(*  - Cyrillic literals of the source are written in Latin transliteration *)
(*    ("Спам" -> "Spam", "Смена данных" -> "Smena dannyh", ...).           *)
(*  - Python None is the empty sequence <<>> for optional values kept in   *)
(*    a one-element sequence (<<v>>), and 0 for optional object references.*)
(*  - Coordinates lie on one meridian (equal longitude) and latitudes are  *)
(*    whole degrees; on a meridian the haversine distance is R * |dlat|,   *)
(*    so distances are computed exactly, as integers in units of 0.0001 km.*)
(***************************************************************************)
EXTENDS Integers, Sequences, FiniteSets, TLC

(***************************************************************************)
(* Bounds of the model                                                     *)
(***************************************************************************)
MaxCalls == 3
MaxLoggedCalls == 4
MaxOffices == 4

(***************************************************************************)
(* Strings                                                                 *)
(***************************************************************************)
Upper == <<"A", "K", "L", "M", "O", "S", "T", "X", "Y">>
LowerOf == <<"a", "k", "l", "m", "o", "s", "t", "x", "y">>

\* str.lower() on one character
LowerChar(c) ==
    IF \E i \in 1..Len(Upper) : Upper[i] = c
    THEN LowerOf[CHOOSE i \in 1..Len(Upper) : Upper[i] = c]
    ELSE c

\* str.lower()
Lower(s) == [i \in 1..Len(s) |-> LowerChar(s[i])]

\* str.strip(): drop leading and trailing whitespace
Strip(s) ==
    LET nonblank == {i \in 1..Len(s) : s[i] # " "}
    IN  IF nonblank = {} THEN <<>>
        ELSE LET lo == CHOOSE i \in nonblank : \A j \in nonblank : i <= j
                 hi == CHOOSE i \in nonblank : \A j \in nonblank : j <= i
             IN  SubSeq(s, lo, hi)

\* Python `a in b` on strings: a occurs in b as a contiguous substring
\* (the empty string occurs in every string)
Contains(b, a) ==
    \E k \in 0..(Len(b) - Len(a)) : \A i \in 1..Len(a) : b[k + i] = a[i]

\* Python list.sort(key=...) is stable: the result lists the positions of
\* keys in ascending key order, equal keys in their original order
StableSort(keys) ==
    LET n == Len(keys)
        Rank(i) == Cardinality({j \in 1..n :
                       keys[j] < keys[i] \/ (keys[j] = keys[i] /\ j < i)}) + 1
    IN  [p \in 1..n |-> CHOOSE i \in 1..n : Rank(i) = p]

(***************************************************************************)
(* Literals of the source                                                  *)
(***************************************************************************)
sAlmaty == <<"A", "l", "m", "a", "t", "y">>
sAstana == <<"A", "s", "t", "a", "n", "a">>
sKaraganda == <<"K", "a", "r", "a", "g", "a", "n", "d", "a">>
sKokshetau == <<"K", "o", "k", "s", "h", "e", "t", "a", "u">>
sOrda == <<"O", "r", "d", "a">>
sSemey == <<"S", "e", "m", "e", "y">>

Spam == "Spam"
SmenaDannyh == "Smena dannyh"
Konsultaciya == "Konsultaciya"
Specialist == "Specialist"
VeduschiySpecialist == "Veduschiy specialist"
GlavnyiSpecialist == "Glavnyi specialist"

\* float("inf"): larger than every distance between two points
Inf == 2000000000

\* OFFICE_COORDS: name -> (lat, lon), the entries of the offices modelled
\* (latitude rounded to whole degrees, all on the meridian Lon)
Lon == 71
OFFICE_COORDS ==
    << <<sAlmaty, <<43, Lon>> >>,
       <<sAstana, <<51, Lon>> >>,
       <<sKaraganda, <<50, Lon>> >>,
       <<sKokshetau, <<53, Lon>> >> >>

\* REGION_TO_OFFICE: alias -> office name, a sub-table in the source's
\* (insertion) order
REGION_TO_OFFICE ==
    << << <<"a", "l", "m", "a", "t", "i", "n", "s", "k", "a", "y", "a">>, sAlmaty >>,
       << <<"a", "k", "m", "o", "l", "i", "n", "s", "k", "a", "y", "a">>, sKokshetau >>,
       << <<"k", "a", "r", "a", "g", "a", "n", "d", "i", "n", "s", "k", "a", "y", "a">>, sKaraganda >>,
       << <<"g", ".", " ", "a", "s", "t", "a", "n", "a">>, sAstana >>,
       << <<"a", "s", "t", "a", "n", "a">>, sAstana >> >>

(***************************************************************************)
(* Optional values                                                         *)
(***************************************************************************)
None == <<>>
Some(v) == <<v>>

(***************************************************************************)
(* Geometry                                                                *)
(***************************************************************************)
\* haversine(lat1, lon1, lat2, lon2) for two points of one meridian
\* (lon1 = lon2): R * |lat2 - lat1| * pi / 180 = 111.1949 km per degree,
\* in units of 0.0001 km
haversine(lat1, lon1, lat2, lon2) ==
    1111949 * (IF lat2 >= lat1 THEN lat2 - lat1 ELSE lat1 - lat2)

\* round(d, 1) of a distance given in 0.0001 km: the result in 0.1 km;
\* round(float("inf"), 1) is float("inf")
Round1(d) == IF d = Inf THEN Inf ELSE (d + 500) \div 1000

\* the stored coordinates first, the hardcoded ones second
_office_coords_StoredFirst(office) ==
    IF office.latitude # None /\ office.longitude # None
    THEN <<office.latitude[1], office.longitude[1]>>
    ELSE IF \E k \in 1..Len(OFFICE_COORDS) : OFFICE_COORDS[k][1] = office.name
         THEN OFFICE_COORDS[CHOOSE k \in 1..Len(OFFICE_COORDS) :
                                OFFICE_COORDS[k][1] = office.name][2]
         ELSE None

\* _office_coords(office): hardcoded coordinates first, stored ones second,
\* None when the office has neither
_office_coords(office) ==
    IF \E k \in 1..Len(OFFICE_COORDS) : OFFICE_COORDS[k][1] = office.name
    THEN OFFICE_COORDS[CHOOSE k \in 1..Len(OFFICE_COORDS) :
                           OFFICE_COORDS[k][1] = office.name][2]
    ELSE IF office.latitude # None /\ office.longitude # None
         THEN <<office.latitude[1], office.longitude[1]>>
         ELSE None

\* the loop of find_nearest_office from position i on: <<best_office,
\* best_dist>>, best_office a position of the office list or 0 (None)
RECURSIVE NearestLoop(_, _, _, _, _, _)
NearestLoop(lat, lon, offs, i, best_office, best_dist) ==
    IF i > Len(offs) THEN <<best_office, best_dist>>
    ELSE LET coords == _office_coords(offs[i])
         IN  IF coords = None
             THEN NearestLoop(lat, lon, offs, i + 1, best_office, best_dist)
             ELSE LET dist == haversine(lat, lon, coords[1], coords[2])
                  IN  IF dist < best_dist
                      THEN NearestLoop(lat, lon, offs, i + 1, i, dist)
                      ELSE NearestLoop(lat, lon, offs, i + 1, best_office, best_dist)

\* find_nearest_office(lat, lon, offices): <<position or 0, round(dist, 1)>>
find_nearest_office(lat, lon, offs) ==
    LET r == NearestLoop(lat, lon, offs, 1, 0, Inf)
    IN  <<r[1], Round1(r[2])>>

(***************************************************************************)
(* Office lookup by name, city and region                                  *)
(***************************************************************************)
\* for o in offices: if o.name == target_city: return o   (position or 0)
OfficeNamed(target_city, offs) ==
    LET hits == {i \in 1..Len(offs) : offs[i].name = target_city}
    IN  IF hits = {} THEN 0 ELSE CHOOSE i \in hits : \A j \in hits : i <= j

\* _find_office_by_region(region, offices): position of the office or 0
_find_office_by_region(region, offs) ==
    IF region = <<>> THEN 0
    ELSE LET region_lower == Strip(Lower(region))
             T == REGION_TO_OFFICE
             exact == {k \in 1..Len(T) : T[k][1] = region_lower}
             exact_hit == IF exact = {} THEN 0
                          ELSE OfficeNamed(T[CHOOSE k \in exact : TRUE][2], offs)
             scan == {k \in 1..Len(T) :
                        /\ \/ Contains(region_lower, T[k][1])
                           \/ Contains(T[k][1], region_lower)
                        /\ OfficeNamed(T[k][2], offs) # 0}
         IN  IF exact_hit # 0 THEN exact_hit
             ELSE IF scan = {} THEN 0
             ELSE OfficeNamed(T[CHOOSE k \in scan : \A j \in scan : k <= j][2], offs)

\* the city match without lower()
CityMatch_CaseSensitive(city, offs) ==
    IF city = <<>> THEN 0
    ELSE LET hits == {i \in 1..Len(offs) :
                        /\ offs[i].name # <<>>
                        /\ \/ offs[i].name = city
                           \/ Contains(city, offs[i].name)
                           \/ Contains(offs[i].name, city)}
         IN  IF hits = {} THEN 0 ELSE CHOOSE i \in hits : \A j \in hits : i <= j

\* step 1a of assign_ticket: the first office whose name matches the city
CityMatch(city, offs) ==
    IF city = <<>> THEN 0
    ELSE LET city_lower == Lower(city)
             hits == {i \in 1..Len(offs) :
                        /\ offs[i].name # <<>>
                        /\ \/ Lower(offs[i].name) = city_lower
                           \/ Contains(city_lower, Lower(offs[i].name))
                           \/ Contains(Lower(offs[i].name), city_lower)}
         IN  IF hits = {} THEN 0 ELSE CHOOSE i \in hits : \A j \in hits : i <= j

(***************************************************************************)
(* RoutingState: <<>> when the row with id 1 does not exist, else          *)
(* <<rr_counter>>                                                          *)
(***************************************************************************)
\* _get_rr_counter(): <<value returned, state afterwards>>
_get_rr_counter(state) ==
    IF state = None THEN <<0, Some(0)>> ELSE <<state[1], state>>

\* _increment_rr_counter() storing 1 instead of adding 1
_increment_rr_counter_Assign(state) == Some(1)

\* _increment_rr_counter(): the state afterwards
_increment_rr_counter(state) ==
    IF state = None THEN Some(1) ELSE Some(state[1] + 1)

\* reset_counter() leaving the stored value as it is
reset_counter_KeepsValue(state) == state

\* reset_counter(): the state afterwards
reset_counter(state) ==
    IF state # None THEN Some(0) ELSE state

(***************************************************************************)
(* assign_ticket                                                           *)
(*   ticket   : [segment, city, region]                                    *)
(*   analysis : [ticket_type, priority_score, language, latitude,          *)
(*               longitude]  (the dict is updated in place: the result     *)
(*               carries the dict as it is when the call returns)          *)
(*   offs     : sequence of [id, name, latitude, longitude]                *)
(*   mgrs     : sequence of [position, office_id, skills,                  *)
(*               current_workload]; a manager is named by its position in  *)
(*               the list                                                  *)
(*   state    : the RoutingState row                                       *)
(***************************************************************************)
\* the dict `reason` as built at the start of assign_ticket
reason0 ==
    [nearest_office |-> None, distance_km |-> None, filters_applied |-> <<>>,
     candidates_initial |-> 0, candidates_after_filters |-> 0,
     top2_managers |-> <<>>, chosen_by |-> "round_robin"]

\* m.skills and s in m.skills
HasSkill(m, s) == m.skills # <<>> /\ \E i \in 1..Len(m.skills) : m.skills[i] = s

\* ticket.segment in ("VIP", "Priority")
VipSegment(ticket) == ticket.segment \in {"VIP", "Priority"}

\* the hard filters with the language tag recorded ahead of the other tags
HardFilters_LanguageFirst(candidates, ticket, analysis, mgrs) ==
    LET c1 == IF VipSegment(ticket)
              THEN SelectSeq(candidates, LAMBDA i : HasSkill(mgrs[i], "VIP"))
              ELSE candidates
        f1 == IF VipSegment(ticket) THEN <<"VIP_skill">> ELSE <<>>
        c2 == IF analysis.ticket_type = SmenaDannyh
              THEN SelectSeq(c1, LAMBDA i : mgrs[i].position = GlavnyiSpecialist)
              ELSE c1
        f2 == IF analysis.ticket_type = SmenaDannyh
              THEN <<"data_change_position">> ELSE <<>>
        lang == analysis.language
        c3 == IF lang = "KZ"
              THEN SelectSeq(c2, LAMBDA i : HasSkill(mgrs[i], "KZ"))
              ELSE IF lang = "ENG"
              THEN SelectSeq(c2, LAMBDA i : HasSkill(mgrs[i], "ENG"))
              ELSE c2
        f3 == IF lang = "KZ" THEN <<"KZ_language">>
              ELSE IF lang = "ENG" THEN <<"ENG_language">> ELSE <<>>
    IN  <<c3, f3 \o f1 \o f2>>

\* the hard filters with the VIP rule applied to a ticket of any segment
HardFilters_VipAlways(candidates, ticket, analysis, mgrs) ==
    LET c1 == SelectSeq(candidates, LAMBDA i : HasSkill(mgrs[i], "VIP"))
        f1 == <<"VIP_skill">>
        c2 == IF analysis.ticket_type = SmenaDannyh
              THEN SelectSeq(c1, LAMBDA i : mgrs[i].position = GlavnyiSpecialist)
              ELSE c1
        f2 == IF analysis.ticket_type = SmenaDannyh
              THEN <<"data_change_position">> ELSE <<>>
        lang == analysis.language
        c3 == IF lang = "KZ"
              THEN SelectSeq(c2, LAMBDA i : HasSkill(mgrs[i], "KZ"))
              ELSE IF lang = "ENG"
              THEN SelectSeq(c2, LAMBDA i : HasSkill(mgrs[i], "ENG"))
              ELSE c2
        f3 == IF lang = "KZ" THEN <<"KZ_language">>
              ELSE IF lang = "ENG" THEN <<"ENG_language">> ELSE <<>>
    IN  <<c3, f1 \o f2 \o f3>>

\* step 3 of assign_ticket: the hard skill filters applied one after the
\* other to the candidates (positions in mgrs): <<candidates, tags appended>>
HardFilters(candidates, ticket, analysis, mgrs) ==
    LET c1 == IF VipSegment(ticket)
              THEN SelectSeq(candidates, LAMBDA i : HasSkill(mgrs[i], "VIP"))
              ELSE candidates
        f1 == IF VipSegment(ticket) THEN <<"VIP_skill">> ELSE <<>>
        c2 == IF analysis.ticket_type = SmenaDannyh
              THEN SelectSeq(c1, LAMBDA i : mgrs[i].position = GlavnyiSpecialist)
              ELSE c1
        f2 == IF analysis.ticket_type = SmenaDannyh
              THEN <<"data_change_position">> ELSE <<>>
        lang == analysis.language
        c3 == IF lang = "KZ"
              THEN SelectSeq(c2, LAMBDA i : HasSkill(mgrs[i], "KZ"))
              ELSE IF lang = "ENG"
              THEN SelectSeq(c2, LAMBDA i : HasSkill(mgrs[i], "ENG"))
              ELSE c2
        f3 == IF lang = "KZ" THEN <<"KZ_language">>
              ELSE IF lang = "ENG" THEN <<"ENG_language">> ELSE <<>>
    IN  <<c3, f1 \o f2 \o f3>>

\* the fallback pool without the position rule
FallbackPool_NoPosition(other, ticket, analysis, mgrs) ==
    LET all == [i \in 1..Len(mgrs) |-> i]
        p0 == SelectSeq(all, LAMBDA i : mgrs[i].office_id = other.id)
        p1 == IF VipSegment(ticket)
              THEN SelectSeq(p0, LAMBDA i : HasSkill(mgrs[i], "VIP")) ELSE p0
        lang == analysis.language
    IN  IF lang = "KZ" THEN SelectSeq(p1, LAMBDA i : HasSkill(mgrs[i], "KZ"))
        ELSE IF lang = "ENG" THEN SelectSeq(p1, LAMBDA i : HasSkill(mgrs[i], "ENG"))
        ELSE p1

\* the fallback pool without the language rules
FallbackPool_NoLanguage(other, ticket, analysis, mgrs) ==
    LET all == [i \in 1..Len(mgrs) |-> i]
        p0 == SelectSeq(all, LAMBDA i : mgrs[i].office_id = other.id)
        p1 == IF VipSegment(ticket)
              THEN SelectSeq(p0, LAMBDA i : HasSkill(mgrs[i], "VIP")) ELSE p0
    IN  IF analysis.ticket_type = SmenaDannyh
        THEN SelectSeq(p1, LAMBDA i : mgrs[i].position = GlavnyiSpecialist)
        ELSE p1

\* the fallback pool drawn from the managers of every office
FallbackPool_AnyOffice(other, ticket, analysis, mgrs) ==
    LET p0 == [i \in 1..Len(mgrs) |-> i]
        p1 == IF VipSegment(ticket)
              THEN SelectSeq(p0, LAMBDA i : HasSkill(mgrs[i], "VIP")) ELSE p0
        p2 == IF analysis.ticket_type = SmenaDannyh
              THEN SelectSeq(p1, LAMBDA i : mgrs[i].position = GlavnyiSpecialist)
              ELSE p1
        lang == analysis.language
    IN  IF lang = "KZ" THEN SelectSeq(p2, LAMBDA i : HasSkill(mgrs[i], "KZ"))
        ELSE IF lang = "ENG" THEN SelectSeq(p2, LAMBDA i : HasSkill(mgrs[i], "ENG"))
        ELSE p2

\* the pool of one other office in the fallback walk, after the same filters
FallbackPool(other, ticket, analysis, mgrs) ==
    LET all == [i \in 1..Len(mgrs) |-> i]
        p0 == SelectSeq(all, LAMBDA i : mgrs[i].office_id = other.id)
        p1 == IF VipSegment(ticket)
              THEN SelectSeq(p0, LAMBDA i : HasSkill(mgrs[i], "VIP")) ELSE p0
        p2 == IF analysis.ticket_type = SmenaDannyh
              THEN SelectSeq(p1, LAMBDA i : mgrs[i].position = GlavnyiSpecialist)
              ELSE p1
        lang == analysis.language
    IN  IF lang = "KZ" THEN SelectSeq(p2, LAMBDA i : HasSkill(mgrs[i], "KZ"))
        ELSE IF lang = "ENG" THEN SelectSeq(p2, LAMBDA i : HasSkill(mgrs[i], "ENG"))
        ELSE p2

\* the pool left in list order
SortByWorkload_Unsorted(pool, mgrs) == pool

\* pool.sort(key=lambda m: m.current_workload) on a sequence of positions
SortByWorkload(pool, mgrs) ==
    LET perm == StableSort([k \in 1..Len(pool) |-> mgrs[pool[k]].current_workload])
    IN  [k \in 1..Len(pool) |-> pool[perm[k]]]

\* other_offices left in office-list order
OtherOffices_Unsorted(fallback_office, target_ids, offs) ==
    SelectSeq(offs, LAMBDA o : o.id \notin target_ids)

\* other_offices of the fallback: the offices outside target_ids, sorted by
\* distance from the fallback office when that office has coordinates
OtherOffices(fallback_office, target_ids, offs) ==
    LET fb_coords == _office_coords(fallback_office)
        other == SelectSeq(offs, LAMBDA o : o.id \notin target_ids)
        key(o) == IF _office_coords(o) # None
                  THEN haversine(fb_coords[1], fb_coords[2],
                                 _office_coords(o)[1], _office_coords(o)[2])
                  ELSE Inf
    IN  IF fb_coords # None
        THEN LET perm == StableSort([k \in 1..Len(other) |-> key(other[k])])
             IN  [k \in 1..Len(other) |-> other[perm[k]]]
        ELSE other

\* the workload incremented twice
IncrementWorkload_Twice(mgrs, chosen) ==
    [mgrs EXCEPT ![chosen].current_workload = @ + 2]

\* mgrs with chosen.current_workload += 1
IncrementWorkload(mgrs, chosen) ==
    [mgrs EXCEPT ![chosen].current_workload = @ + 1]

\* step 1 of assign_ticket: the target office.  office is a position of the
\* office list; raised is TRUE when the step fails with an exception
\* (nearest.id with nearest None; offices[0] with an empty list)
LocateOffice(ticket, analysis, offs) ==
    LET lat == analysis.latitude
        lon == analysis.longitude
        city_match == CityMatch(ticket.city, offs)
    IN  IF city_match # 0
        THEN [raised |-> FALSE, office |-> city_match,
              distance_km |-> Some(0), tags |-> <<"city_name_match">>]
        ELSE IF lat # None /\ lon # None
        THEN LET near == find_nearest_office(lat[1], lon[1], offs)
             IN  IF near[1] = 0
                 THEN [raised |-> TRUE, office |-> 0,
                       distance_km |-> None, tags |-> <<>>]
                 ELSE [raised |-> FALSE, office |-> near[1],
                       distance_km |-> Some(near[2]), tags |-> <<>>]
        ELSE LET region_match == _find_office_by_region(ticket.region, offs)
             IN  IF region_match # 0
                 THEN [raised |-> FALSE, office |-> region_match,
                       distance_km |-> None, tags |-> <<"region_match">>]
                 ELSE IF OfficeNamed(sAstana, offs) # 0
                 THEN [raised |-> FALSE, office |-> OfficeNamed(sAstana, offs),
                       distance_km |-> None, tags |-> <<"no_location_default">>]
                 ELSE IF offs # <<>>
                 THEN [raised |-> FALSE, office |-> 1,
                       distance_km |-> None, tags |-> <<"no_location_default">>]
                 ELSE [raised |-> TRUE, office |-> 0,
                       distance_km |-> None, tags |-> <<>>]

\* the walk `for other in other_offices` from position k on: the first office
\* with a non-empty filtered pool, as <<office, chosen manager>>, or <<>>
RECURSIVE FallbackWalk(_, _, _, _, _)
FallbackWalk(other_offices, k, ticket, analysis, mgrs) ==
    IF k > Len(other_offices) THEN <<>>
    ELSE LET pool == FallbackPool(other_offices[k], ticket, analysis, mgrs)
         IN  IF pool # <<>>
             THEN <<other_offices[k], SortByWorkload(pool, mgrs)[1]>>
             ELSE FallbackWalk(other_offices, k + 1, ticket, analysis, mgrs)

\* always the first entry of the shortlist
PickRoundRobin_First(top2, rr_counter) == top2[1]

\* chosen = top2[rr_counter % len(top2)]
PickRoundRobin(top2, rr_counter) == top2[(rr_counter % Len(top2)) + 1]

\* the spam pre-check against a literal no classification carries
IsSpam_WrongLiteral(analysis) == analysis.ticket_type = "spam"

\* the spam pre-check: analysis.get("ticket_type") == "Спам"
IsSpam(analysis) == analysis.ticket_type = Spam

\* priority forced for the VIP segment only
ForcedPriority_VipOnly(ticket, analysis) ==
    IF ticket.segment = "VIP" THEN 10 ELSE analysis.priority_score

\* the priority score assign_ticket stores for a ticket that is not spam
ForcedPriority(ticket, analysis) ==
    IF VipSegment(ticket) THEN 10 ELSE analysis.priority_score

\* the unassigned return without the resolved office
Unassigned_NoOffice(fallback_office, reason) ==
    [manager |-> 0, office |-> 0,
     reason |-> [reason EXCEPT !.chosen_by = "unassigned"]]

\* the return when no office has a qualified manager:
\* reason["chosen_by"] = "unassigned"; return None, fallback_office, reason
Unassigned(fallback_office, reason) ==
    [manager |-> 0, office |-> fallback_office.id,
     reason |-> [reason EXCEPT !.chosen_by = "unassigned"]]

\* assign_ticket(ticket, analysis, offices, managers) run on the RoutingState
\* row `state`: the returned (manager, office, reason), the analysis dict,
\* manager list and RoutingState row as the call leaves them, and the number
\* of calls of _get_rr_counter and _increment_rr_counter it made
assign_ticket(ticket, analysis, offs, mgrs, state) ==
    IF IsSpam(analysis)
    THEN [raised |-> FALSE, manager |-> 0, office |-> 0,
          reason |-> [reason0 EXCEPT !.chosen_by = "spam_filter"],
          analysis |-> analysis, managers |-> mgrs, state |-> state,
          reads |-> 0, incs |-> 0]
    ELSE
    LET analysis1 == [analysis EXCEPT !.priority_score = ForcedPriority(ticket, analysis)]
        got == _get_rr_counter(state)
        rr_counter == got[1]
        state1 == got[2]
        loc == LocateOffice(ticket, analysis1, offs)
    IN  IF loc.raised
        THEN [raised |-> TRUE, manager |-> 0, office |-> 0, reason |-> reason0,
              analysis |-> analysis1, managers |-> mgrs, state |-> state1,
              reads |-> 1, incs |-> 0]
        ELSE
        LET fallback_office == offs[loc.office]
            target_ids == {fallback_office.id}
            all == [i \in 1..Len(mgrs) |-> i]
            candidates0 == SelectSeq(all, LAMBDA i : mgrs[i].office_id \in target_ids)
            filtered == HardFilters(candidates0, ticket, analysis1, mgrs)
            candidates == filtered[1]
            reason1 == [reason0 EXCEPT
                          !.nearest_office = fallback_office.name,
                          !.distance_km = loc.distance_km,
                          !.filters_applied = loc.tags \o filtered[2],
                          !.candidates_initial = Len(candidates0),
                          !.candidates_after_filters = Len(candidates)]
        IN  IF candidates = <<>>
            THEN LET other_offices == OtherOffices(fallback_office, target_ids, offs)
                     found == FallbackWalk(other_offices, 1, ticket, analysis1, mgrs)
                 IN  IF found # <<>>
                     THEN [raised |-> FALSE, manager |-> found[2],
                           office |-> found[1].id,
                           reason |-> [reason1 EXCEPT
                               !.filters_applied = @ \o <<"nearest_office_fallback">>,
                               !.chosen_by = "nearest_qualified"],
                           analysis |-> analysis1,
                           managers |-> IncrementWorkload(mgrs, found[2]),
                           state |-> state1, reads |-> 1, incs |-> 0]
                     ELSE LET none == Unassigned(fallback_office, reason1)
                          IN  [raised |-> FALSE, manager |-> none.manager,
                               office |-> none.office, reason |-> none.reason,
                               analysis |-> analysis1, managers |-> mgrs,
                               state |-> state1, reads |-> 1, incs |-> 0]
            ELSE LET sorted == SortByWorkload(candidates, mgrs)
                     top2 == SubSeq(sorted, 1, IF Len(sorted) < 2 THEN Len(sorted) ELSE 2)
                     chosen == PickRoundRobin(top2, rr_counter)
                 IN  [raised |-> FALSE, manager |-> chosen,
                      office |-> fallback_office.id,
                      reason |-> [reason1 EXCEPT !.top2_managers = top2,
                                                 !.chosen_by = "round_robin"],
                      analysis |-> analysis1,
                      managers |-> IncrementWorkload(mgrs, chosen),
                      state |-> _increment_rr_counter(state1), reads |-> 1, incs |-> 1]

(***************************************************************************)
(* The data the engine is run on                                           *)
(***************************************************************************)
Office(id, name, latitude, longitude) ==
    [id |-> id, name |-> name, latitude |-> latitude, longitude |-> longitude]

Manager(position, office_id, skills, current_workload) ==
    [position |-> position, office_id |-> office_id, skills |-> skills,
     current_workload |-> current_workload]

\* Office list A: three offices of OFFICE_COORDS, one office without any
\* coordinates (Orda) and one with stored coordinates only (Semey).
\* Seen from Astana, Karaganda and Semey are equally far.
OfficesA ==
    << Office(1, sAlmaty, Some(43), Some(Lon)),
       Office(2, sOrda, None, None),
       Office(3, sAstana, Some(51), Some(Lon)),
       Office(4, sKaraganda, Some(50), Some(Lon)),
       Office(5, sSemey, Some(52), Some(Lon)) >>

ManagersA ==
    << Manager(Specialist, 3, <<>>, 2),
       Manager(Specialist, 3, <<>>, 2),
       Manager(VeduschiySpecialist, 3, <<"KZ">>, 2),
       Manager(GlavnyiSpecialist, 4, <<"VIP", "ENG">>, 1),
       Manager(Specialist, 4, <<"VIP">>, 1),
       Manager(GlavnyiSpecialist, 5, <<"VIP">>, 0),
       Manager(VeduschiySpecialist, 1, <<"VIP", "KZ">>, 0),
       Manager(Specialist, 2, <<"VIP">>, 0) >>

\* Office list B: no office named Astana; the first two offices have no
\* coordinates
OfficesB ==
    << Office(2, sOrda, None, None),
       Office(5, sSemey, None, None),
       Office(1, sAlmaty, Some(43), Some(Lon)) >>

ManagersB ==
    << Manager(Specialist, 2, <<>>, 0),
       Manager(Specialist, 5, <<"VIP">>, 1),
       Manager(GlavnyiSpecialist, 1, <<"VIP", "KZ">>, 0),
       Manager(Specialist, 1, <<"VIP", "KZ", "ENG">>, 0) >>

\* Office list C: no office has coordinates, in OFFICE_COORDS or stored
OfficesC ==
    << Office(2, sOrda, None, None),
       Office(5, sSemey, None, None) >>

ManagersC ==
    << Manager(Specialist, 2, <<"VIP">>, 0),
       Manager(GlavnyiSpecialist, 5, <<"VIP", "KZ">>, 1) >>

\* Office list D: the office table is empty; the managers have no office
OfficesD == << >>

ManagersD ==
    << Manager(Specialist, 0, <<"VIP">>, 0) >>

Configs == << <<OfficesA, ManagersA>>, <<OfficesB, ManagersB>>,
              <<OfficesC, ManagersC>>, <<OfficesD, ManagersD>> >>

\* the tickets and classifications the calls are made with
Segments == {"Mass", "VIP", "Priority"}
TicketTypes == {Spam, SmenaDannyh, Konsultaciya}
Languages == {"RU", "KZ", "ENG"}

\* the priority score of a classification: analyze_ticket's post-processing
\* gives a spam ticket priority 1
PriorityScores(ticket_type) == IF ticket_type = Spam THEN {1} ELSE {5}

Location(city, region, latitude, longitude) ==
    [city |-> city, region |-> region, latitude |-> latitude, longitude |-> longitude]

\* a city that names an office of every list; the city of the office
\* without coordinates
LocAlmaty == Location(sAlmaty, <<>>, None, None)
LocOrda == Location(sOrda, <<>>, None, None)
LocAstana == Location(sAstana, <<>>, None, None)

\* locations that exercise every rule of the office cascade
Locations ==
    { Location(<<>>, <<>>, None, None),
      Location(<<"A", "L", "M", "A", "T", "Y">>, <<>>, Some(50), Some(Lon)),
      Location(<<"K", "a", "r", "a">>, <<>>, None, None),
      Location(<<"g", ".", " ", "A", "s", "t", "a", "n", "a">>,
               <<"a", "l", "m", "a", "t", "i", "n", "s", "k", "a", "y", "a">>, None, None),
      Location(<<>>, <<>>, Some(52), Some(Lon)),
      Location(<<"X", "y", "z">>,
               <<"k", "a", "r", "a", "g", "a", "n", "d", "i", "n", "s", "k", "a", "y", "a">>,
               Some(44), Some(Lon)),
      Location(<<>>,
               <<"k", "a", "r", "a", "g", "a", "n", "d", "i", "n", "s", "k", "a", "y", "a">>,
               Some(50), None),
      Location(<<>>,
               <<"K", "a", "r", "a", "g", "a", "n", "d", "i", "n", "s", "k", "a", "y", "a",
                 " ", "o", "b", "l", ".">>, None, None),
      Location(<<>>, <<"A", "k", "m", "o", "l", "i", "n", "s", "k", "a", "y", "a">>,
               None, None),
      Location(<<>>, <<" ">>, None, None),
      Location(<<>>, <<"z", "z", "z">>, None, None) }

Ticket(seg, loc) == [segment |-> seg, city |-> loc.city, region |-> loc.region]

Analysis(tt, prio, lang, loc) ==
    [ticket_type |-> tt, priority_score |-> prio, language |-> lang,
     latitude |-> loc.latitude, longitude |-> loc.longitude]

\* the calls of the model, as <<ticket, analysis>>: every segment, ticket
\* type and language for tickets of two cities, and a Mass and a VIP
\* consultation in Russian for every other location
Calls ==
    UNION { { <<Ticket(seg, loc), Analysis(tt, prio, lang, loc)>> :
                seg \in Segments, loc \in {LocAstana, LocOrda},
                lang \in Languages, prio \in PriorityScores(tt) } :
            tt \in TicketTypes }
    \cup { <<Ticket(seg, loc), Analysis(Konsultaciya, 5, "RU", loc)>> :
             seg \in {"Mass", "VIP"}, loc \in Locations \cup {LocAlmaty} }

(***************************************************************************)
(* State                                                                   *)
(***************************************************************************)
VARIABLES
    offices,        \* Office.query.all()
    managers,       \* Manager.query.all(), with the current workloads
    routing_state,  \* the RoutingState row
    call,           \* the arguments of the last assign_ticket call
    result,         \* what the last assign_ticket call returned
    pre,            \* managers and routing_state when the last call began
    managers0,      \* the manager list when the run began
    returned,       \* per manager, the number of calls that returned it
    ncalls,         \* the number of calls made
    chosen_log,     \* the outcomes of the calls of a logged run, in order
    tickets,        \* the Ticket table
    analyses,       \* the Analysis table: per ticket, no row or the row
    req,            \* per /process request, the position in the handler
    lock,           \* the request whose transaction wrote the RoutingState row
    INITIAL_WORKLOADS   \* seed.INITIAL_WORKLOADS in the server process

vars == <<offices, managers, routing_state, call, result, pre, managers0,
          returned, ncalls, chosen_log, tickets, analyses, req, lock,
          INITIAL_WORKLOADS>>

\* the state of the /process and /reset handlers
procvars == <<tickets, analyses, req, lock, INITIAL_WORKLOADS>>

\* no ticket is stored and no request is under way
NoProcess ==
    /\ tickets = <<>>
    /\ analyses = <<>>
    /\ req = <<>>
    /\ lock = 0
    /\ INITIAL_WORKLOADS = <<>>

NoCall == [made |-> FALSE]

\* the value _get_rr_counter() would return on a RoutingState row
CounterValue(state) == IF state = None THEN 0 ELSE state[1]

InitWith(configs) ==
    /\ \E c \in configs :
          /\ offices = Configs[c][1]
          /\ managers = Configs[c][2]
    /\ routing_state \in {None, Some(0)}
    /\ call = NoCall
    /\ result = NoCall
    /\ pre = NoCall
    /\ managers0 = managers
    /\ returned = [i \in 1..Len(managers) |-> 0]
    /\ ncalls = 0
    /\ chosen_log = <<>>
    /\ NoProcess

Init == InitWith({1, 2})

\* one sequential assign_ticket call; the caller commits what the call did,
\* or rolls it back when the call raised.  (The call is evaluated once, as
\* the one element of a set.)
AssignTicket(ticket, analysis) ==
    /\ \E r \in {assign_ticket(ticket, analysis, offices, managers, routing_state)} :
           /\ call' = [made |-> TRUE, ticket |-> ticket, analysis |-> analysis]
           /\ pre' = [made |-> TRUE, managers |-> managers,
                      routing_state |-> routing_state]
           /\ result' = [made |-> TRUE, raised |-> r.raised, manager |-> r.manager,
                         office |-> r.office, reason |-> r.reason,
                         analysis |-> r.analysis, reads |-> r.reads, incs |-> r.incs]
           /\ managers' = IF r.raised THEN managers ELSE r.managers
           /\ routing_state' = IF r.raised THEN routing_state ELSE r.state
           /\ returned' = IF r.manager # 0
                          THEN [returned EXCEPT ![r.manager] = @ + 1]
                          ELSE returned
    /\ ncalls' = ncalls + 1
    /\ UNCHANGED <<offices, managers0, procvars>>

Next ==
    /\ ncalls < MaxCalls
    /\ \E c \in Calls : AssignTicket(c[1], c[2])
    /\ UNCHANGED chosen_log

Spec == Init /\ [][Next]_vars

(***************************************************************************)
(* Logged runs: sequences of calls for tickets with no active filter (and  *)
(* spam), from counter 0, with the outcome of every call kept in           *)
(* chosen_log                                                              *)
(***************************************************************************)
LocKaragandaRegion ==
    Location(<<>>,
             <<"k", "a", "r", "a", "g", "a", "n", "d", "i", "n", "s", "k", "a", "y", "a">>,
             None, None)
LocKaragandaCity == Location(sKaraganda, <<>>, None, None)

LoggedCalls ==
    { <<Ticket("Mass", loc), Analysis(Konsultaciya, 5, "RU", loc)>> :
        loc \in {LocKaragandaCity, LocKaragandaRegion, LocAstana, LocAlmaty} }
    \cup { <<Ticket("Mass", LocAstana), Analysis(Spam, 1, "RU", LocAstana)>> }

InitLogged == InitWith({1})

NextLogged ==
    /\ ncalls < MaxLoggedCalls
    /\ \E c \in LoggedCalls : AssignTicket(c[1], c[2])
    /\ chosen_log' = Append(chosen_log,
                            [counter |-> CounterValue(routing_state),
                             manager |-> result'.manager,
                             office |-> result'.office,
                             chosen_by |-> result'.reason.chosen_by])

SpecLogged == InitLogged /\ [][NextLogged]_vars

(***************************************************************************)
(* Runs on office lists that leave the location step without an office:    *)
(* no office with coordinates, and no office at all                        *)
(***************************************************************************)
InitLocate == InitWith({3, 4})

SpecLocate == InitLocate /\ [][Next]_vars

(***************************************************************************)
(* find_nearest_office on its own: every office list of at most MaxOffices *)
(* offices drawn from GeoOffices, and client coordinates on the meridian   *)
(* of the offices                                                          *)
(***************************************************************************)
\* Almaty with stored coordinates that differ from OFFICE_COORDS, Orda
\* with none and with a latitude only, Astana with none stored, Karaganda,
\* and Semey with stored coordinates only
GeoOffices ==
    << Office(1, sAlmaty, Some(52), Some(Lon)),
       Office(2, sOrda, None, None),
       Office(3, sAstana, None, None),
       Office(4, sKaraganda, Some(50), Some(Lon)),
       Office(5, sSemey, Some(52), Some(Lon)),
       Office(6, sOrda, Some(51), None) >>

GeoOfficeLists ==
    LET picks == UNION {[1..n -> 1..Len(GeoOffices)] : n \in 0..MaxOffices}
    IN  { [k \in DOMAIN p |-> GeoOffices[p[k]]] :
            p \in {q \in picks : \A j, k \in DOMAIN q : q[j] = q[k] => j = k} }

GeoLatitudes == {43, 50, 51, 52}

InitLookup ==
    /\ offices \in GeoOfficeLists
    /\ managers = <<>>
    /\ routing_state = None
    /\ call = NoCall
    /\ result = NoCall
    /\ pre = NoCall
    /\ managers0 = managers
    /\ returned = <<>>
    /\ ncalls = 0
    /\ chosen_log = <<>>
    /\ NoProcess

\* one call find_nearest_office(lat, lon, offices)
FindNearestOffice(lat, lon) ==
    /\ \E r \in {find_nearest_office(lat, lon, offices)} :
          /\ call' = [made |-> TRUE, latitude |-> lat, longitude |-> lon]
          /\ result' = [made |-> TRUE, best_office |-> r[1], distance_km |-> r[2]]
    /\ UNCHANGED <<offices, managers, routing_state, pre, managers0, returned,
                   ncalls, chosen_log, procvars>>

NextNearest == \E lat \in GeoLatitudes : FindNearestOffice(lat, Lon)

SpecNearest == InitLookup /\ [][NextNearest]_vars

(***************************************************************************)
(* _find_office_by_region on its own, on the same office lists (none of    *)
(* them has the office Kokshetau, the target of the alias akmolinskaya)    *)
(***************************************************************************)
\* region texts: one that contains two aliases, an exact key in another
\* letter case with a trailing blank, an exact key, a text that contains an
\* alias, a text contained in three aliases, a blank, a text that matches
\* nothing, and the empty text
RegionTexts ==
    { <<"A", "k", "m", "o", "l", "i", "n", "s", "k", "a", "y", "a",
        ",", " ", "g", ".", " ", "A", "s", "t", "a", "n", "a">>,
      <<"A", "l", "m", "a", "t", "i", "n", "s", "k", "a", "y", "a",
        " ">>,
      <<"a", "s", "t", "a", "n", "a">>,
      <<"K", "a", "r", "a", "g", "a", "n", "d", "i", "n", "s", "k",
        "a", "y", "a", " ", "o", "b", "l", ".">>,
      <<"k", "a", "y", "a">>,
      <<" ">>,
      <<"z", "z", "z">>,
      <<>> }

\* one call _find_office_by_region(region, offices)
FindOfficeByRegion(region) ==
    /\ call' = [made |-> TRUE, region |-> region]
    /\ result' = [made |-> TRUE, office |-> _find_office_by_region(region, offices)]
    /\ UNCHANGED <<offices, managers, routing_state, pre, managers0, returned,
                   ncalls, chosen_log, procvars>>

NextRegion == \E region \in RegionTexts : FindOfficeByRegion(region)

SpecRegion == InitLookup /\ [][NextRegion]_vars

(***************************************************************************)
(* /process and /reset.  A request works in its own database session: the *)
(* objects it loaded (managers, the RoutingState row) with the values it   *)
(* read and the values it has set, and the Analysis row it has added.  A   *)
(* commit writes the attributes the session changed, with the values the   *)
(* session holds, and expires the session; a rollback expires it without   *)
(* writing.  The tables are the committed state (READ COMMITTED).          *)
(***************************************************************************)
Requests == {1, 2}

LocSemeyGps == Location(<<>>, <<>>, Some(52), Some(Lon))

\* the Ticket table: a Mass ticket of the city Karaganda, a Mass ticket
\* whose address geocodes next to Semey, a VIP ticket of the city Astana
ProcLocations == << LocKaragandaCity, LocSemeyGps, LocAstana >>

ProcTickets ==
    << Ticket("Mass", ProcLocations[1]),
       Ticket("Mass", ProcLocations[2]),
       Ticket("VIP", ProcLocations[3]) >>

\* what analyze_ticket reads of a ticket besides its address: whether the
\* description holds one of the lawsuit keywords, and whether the name of
\* the attachment holds "error"
ProcContents ==
    << [lawsuit |-> FALSE, error_attachment |-> TRUE],
       [lawsuit |-> TRUE, error_attachment |-> FALSE],
       [lawsuit |-> FALSE, error_attachment |-> FALSE] >>

\* ai_module.TICKET_TYPES
Zhaloba == "Zhaloba"
Pretenziya == "Pretenziya"
Nerabotosposobnost == "Nerabotosposobnost prilozheniya"
Moshennichestvo == "Moshennicheskie deistviya"
TICKET_TYPES ==
    {Zhaloba, SmenaDannyh, Konsultaciya, Pretenziya, Nerabotosposobnost,
     Moshennichestvo, Spam}

\* ai_module.FALLBACK (summary and recommendation are fixed texts)
FALLBACK ==
    [ticket_type |-> Konsultaciya, sentiment |-> "Neutral", priority_score |-> 5,
     language |-> "RU", latitude |-> None, longitude |-> None]

\* the dict process_tickets stores for a ticket whose worker raised
InlineFallback ==
    [ticket_type |-> Konsultaciya, sentiment |-> "Neutral", priority_score |-> 5,
     language |-> "RU", latitude |-> None, longitude |-> None]

Max(a, b) == IF a >= b THEN a ELSE b
Min(a, b) == IF a <= b THEN a ELSE b

\* postprocess_analysis: the rule-based corrections of the priority
postprocess_analysis(dict, content) ==
    LET r1 == IF dict.ticket_type = Moshennichestvo
              THEN [dict EXCEPT !.priority_score = Max(@, 9)] ELSE dict
        r2 == IF r1.ticket_type = Spam
              THEN [r1 EXCEPT !.priority_score = 1] ELSE r1
        r3 == IF r2.sentiment = "Negative" /\ content.lawsuit
              THEN [r2 EXCEPT !.priority_score = Max(@, 8)] ELSE r2
    IN  IF content.error_attachment
        THEN [r3 EXCEPT !.priority_score = Min(10, @ + 1)] ELSE r3

\* what the language model does for a ticket.  kind is "json" (the reply
\* parses to an object with every key; priority_score is Some(n) when
\* int() accepts the value, None when it does not), "api_error" (every
\* invocation of _call_with_retry raised), "bad_json" (the reply does not
\* parse), "no_priority" (an object without priority_score) or
\* "not_object" (the reply parses to a list)
Response(kind, tt, sentiment, prio, lang) ==
    [kind |-> kind, ticket_type |-> tt, sentiment |-> sentiment,
     priority_score |-> prio, language |-> lang]

Json(tt, sentiment, prio, lang) == Response("json", tt, sentiment, prio, lang)

NoReply(kind) == Response(kind, "", "", None, "")

\* analyze_ticket for ticket t and the response of the language model:
\* [raised, result].  The coordinates of a parsed reply are those of the
\* ticket's address.
analyze_ticket(t, resp) ==
    IF resp.kind \in {"api_error", "bad_json"}
    THEN [raised |-> FALSE, result |-> FALLBACK]
    ELSE IF resp.kind \in {"no_priority", "not_object"}
    THEN [raised |-> TRUE, result |-> FALLBACK]
    ELSE LET tt == IF resp.ticket_type \notin TICKET_TYPES
                   THEN Konsultaciya ELSE resp.ticket_type
             prio == IF resp.priority_score = None THEN 5
                     ELSE Max(1, Min(10, resp.priority_score[1]))
         IN  [raised |-> FALSE,
              result |-> postprocess_analysis(
                  [ticket_type |-> tt, sentiment |-> resp.sentiment,
                   priority_score |-> prio, language |-> resp.language,
                   latitude |-> ProcLocations[t].latitude,
                   longitude |-> ProcLocations[t].longitude],
                  ProcContents[t])]

\* the replies of a language model that answers as asked
AiOutcomes ==
    { Json(Konsultaciya, "Neutral", Some(5), "RU"),
      Json(Spam, "Neutral", Some(1), "RU"),
      Json(SmenaDannyh, "Neutral", Some(5), "KZ") }

\* the replies of a language model that also fails or answers out of range
ClassifierResponses ==
    { Json(Konsultaciya, "Neutral", Some(5), "RU"),
      Json("Vopros", "Negative", Some(15), "RU"),
      Json(Moshennichestvo, "Negative", None, "KZ"),
      Json(Spam, "Neutral", Some(0), "RU"),
      NoReply("api_error"), NoReply("bad_json"),
      NoReply("no_priority"), NoReply("not_object") }

\* Phase 1 leaving out the tickets whose worker raised
Phase1_DropFailed(order, resps) ==
    [t \in {order[k] : k \in {j \in DOMAIN order :
                                 ~analyze_ticket(order[j], resps[order[j]]).raised}} |->
        analyze_ticket(t, resps[t]).result]

\* Phase 1 of process_tickets: ai_results, ticket -> dict
Phase1(order, resps) ==
    [t \in {order[k] : k \in DOMAIN order} |->
        IF analyze_ticket(t, resps[t]).raised THEN InlineFallback
        ELSE analyze_ticket(t, resps[t]).result]

\* the orders in which a query without ORDER BY can return the rows S
RowOrders(S) ==
    {p \in [1..Cardinality(S) -> S] : \A j, k \in DOMAIN p : p[j] = p[k] => j = k}

\* a session that holds no loaded object
Expired ==
    [loaded |-> FALSE, base_managers |-> <<>>, managers |-> <<>>,
     base_state |-> None, state |-> None, record |-> None]

\* the objects of the session, loaded from the tables on first access
Load(sess, mgrs, state) ==
    IF sess.loaded THEN sess
    ELSE [loaded |-> TRUE, base_managers |-> mgrs, managers |-> mgrs,
          base_state |-> state, state |-> state, record |-> None]

\* a rollback that leaves the managers of the session as they are
Rollback_KeepsWorkloads(sess) ==
    [sess EXCEPT !.state = sess.base_state, !.record = None]

\* db.session.rollback(): nothing is written, every object is expired
Rollback(sess) == Expired

\* the Manager table after the session's flush: UPDATE ... SET
\* current_workload = <the session's value> for every manager it changed
CommitManagers(sess, mgrs) ==
    [i \in DOMAIN mgrs |->
        IF sess.managers[i] # sess.base_managers[i] THEN sess.managers[i]
        ELSE mgrs[i]]

\* the RoutingState row after the session's flush
CommitState(sess, state) ==
    IF sess.state # sess.base_state THEN sess.state ELSE state

\* seed.INITIAL_WORKLOADS.get(key, default)
DictGet(dict, key, default) == IF key \in DOMAIN dict THEN dict[key] ELSE default

Idle == [pc |-> "idle", tickets |-> <<>>, resp |-> <<>>, ai |-> <<>>, k |-> 0,
         failed |-> {}, skipped |-> {}, sess |-> Expired]

\* the tables after seeding a configuration with the first n tickets; the
\* RoutingState row is one of states, seed.INITIAL_WORKLOADS one of dicts
InitProcessWith(configs, n, states, seeded) ==
    /\ \E c \in configs :
          /\ offices = Configs[c][1]
          /\ managers = Configs[c][2]
    /\ routing_state \in states
    /\ call = NoCall
    /\ result = NoCall
    /\ pre = NoCall
    /\ managers0 = managers
    /\ returned = [i \in 1..Len(managers) |-> 0]
    /\ ncalls = 0
    /\ chosen_log = <<>>
    /\ tickets = SubSeq(ProcTickets, 1, n)
    /\ analyses = [t \in 1..n |-> None]
    /\ req = [r \in Requests |-> Idle]
    /\ lock = 0
    /\ INITIAL_WORKLOADS \in
          {[i \in 1..Len(managers) |-> managers[i].current_workload] : b \in seeded \ {FALSE}}
          \cup {<<>> : b \in seeded \ {TRUE}}

\* every ticket, with or without an Analysis row
Unprocessed_All == 1..Len(tickets)

\* the tickets (ids) without an Analysis row
Unprocessed == {t \in 1..Len(tickets) : analyses[t] = None}

\* process_tickets up to the routing loop: the tickets without Analysis in
\* the order the query returned them, and the result of Phase 1 for each
StartProcess(r, order, resps) ==
    /\ req[r].pc = "idle"
    /\ req' = [req EXCEPT ![r] =
                 IF order = <<>> THEN [@ EXCEPT !.pc = "done"]
                 ELSE [pc |-> "route", tickets |-> order, resp |-> resps,
                       ai |-> Phase1(order, resps), k |-> 1,
                       failed |-> {}, skipped |-> {}, sess |-> Expired]]
    /\ call' = NoCall
    /\ UNCHANGED <<offices, managers, routing_state, result, pre, managers0,
                   returned, ncalls, chosen_log, tickets, analyses, lock,
                   INITIAL_WORKLOADS>>

\* one iteration of the routing loop up to the return of assign_ticket: the
\* ticket is skipped when ai_results has no dict for it or an empty one, or
\* when it has an Analysis row by now; a call that raises is rolled back
RouteTicket(r) ==
    /\ req[r].pc = "route"
    /\ req[r].k <= Len(req[r].tickets)
    /\ LET q == req[r]
           t == q.tickets[q.k]
       IN  IF t \notin DOMAIN q.ai \/ DOMAIN q.ai[t] = {}
           THEN req' = [req EXCEPT ![r].k = @ + 1, ![r].skipped = @ \cup {t}]
           ELSE IF analyses[t] # None
           THEN req' = [req EXCEPT ![r].k = @ + 1]
           ELSE \E sess \in {Load(q.sess, managers, routing_state)} :
                \E res \in {assign_ticket(tickets[t], q.ai[t],
                                           offices, sess.managers, sess.state)} :
                   req' = [req EXCEPT ![r] =
                      IF res.raised
                      THEN [q EXCEPT !.k = @ + 1, !.failed = @ \cup {t},
                                     !.sess = Rollback(sess)]
                      ELSE [q EXCEPT
                              !.pc = IF res.state # sess.base_state
                                     THEN "flush" ELSE "commit",
                              !.sess = [sess EXCEPT
                                  !.managers = res.managers,
                                  !.state = res.state,
                                  !.record = Some([manager |-> res.manager,
                                                   office |-> res.office,
                                                   chosen_by |-> res.reason.chosen_by,
                                                   counter |-> CounterValue(sess.state)])]]]
    /\ UNCHANGED <<offices, managers, routing_state, call, result, pre, managers0,
                   returned, ncalls, chosen_log, tickets, analyses, lock,
                   INITIAL_WORKLOADS>>

\* db.session.flush() of a changed RoutingState row: the write waits while
\* another transaction that wrote the row is open
Flush(r) ==
    /\ req[r].pc = "flush"
    /\ lock = 0
    /\ lock' = r
    /\ req' = [req EXCEPT ![r].pc = "commit"]
    /\ UNCHANGED <<offices, managers, routing_state, call, result, pre, managers0,
                   returned, ncalls, chosen_log, tickets, analyses,
                   INITIAL_WORKLOADS>>

\* db.session.add(record); db.session.commit().  The commit fails, and the
\* ticket is rolled back, when the ticket has an Analysis row by now
\* (ticket_id is unique) or the RoutingState row the session created exists
Commit(r) ==
    /\ req[r].pc = "commit"
    /\ LET q == req[r]
           t == q.tickets[q.k]
           rec == q.sess.record[1]
           conflict == \/ analyses[t] # None
                       \/ /\ q.sess.base_state = None /\ q.sess.state # None
                          /\ routing_state # None
       IN  /\ managers' = IF conflict THEN managers
                          ELSE CommitManagers(q.sess, managers)
           /\ routing_state' = IF conflict THEN routing_state
                               ELSE CommitState(q.sess, routing_state)
           /\ analyses' = IF conflict THEN analyses
                          ELSE [analyses EXCEPT ![t] =
                                  Some([manager |-> rec.manager, office |-> rec.office,
                                        chosen_by |-> rec.chosen_by])]
           /\ chosen_log' = IF conflict THEN chosen_log
                            ELSE Append(chosen_log,
                                        [ticket |-> t, request |-> r,
                                         counter |-> rec.counter,
                                         manager |-> rec.manager,
                                         office |-> rec.office,
                                         chosen_by |-> rec.chosen_by])
           /\ req' = [req EXCEPT ![r] =
                        [q EXCEPT !.pc = "route", !.k = @ + 1,
                                  !.failed = IF conflict THEN @ \cup {t} ELSE @,
                                  !.sess = IF conflict THEN Rollback(q.sess)
                                           ELSE Expired]]
    /\ lock' = IF lock = r THEN 0 ELSE lock
    /\ UNCHANGED <<offices, call, result, pre, managers0, returned, ncalls,
                   tickets, INITIAL_WORKLOADS>>

\* the commit fails for a reason of the database server: except Exception:
\* db.session.rollback()
CommitFails(r) ==
    /\ req[r].pc = "commit"
    /\ req' = [req EXCEPT ![r] =
                 [@ EXCEPT !.pc = "route", !.k = @ + 1,
                           !.failed = @ \cup {req[r].tickets[req[r].k]},
                           !.sess = Rollback(req[r].sess)]]
    /\ lock' = IF lock = r THEN 0 ELSE lock
    /\ UNCHANGED <<offices, managers, routing_state, call, result, pre, managers0,
                   returned, ncalls, chosen_log, tickets, analyses,
                   INITIAL_WORKLOADS>>

\* the routing loop is over: the request redirects
Finish(r) ==
    /\ req[r].pc = "route"
    /\ req[r].k > Len(req[r].tickets)
    /\ req' = [req EXCEPT ![r].pc = "done"]
    /\ UNCHANGED <<offices, managers, routing_state, call, result, pre, managers0,
                   returned, ncalls, chosen_log, tickets, analyses, lock,
                   INITIAL_WORKLOADS>>

\* one step of request r, the language model answering with one of
\* responses for every ticket
ProcessWith(r, responses) ==
    \/ \E order \in RowOrders(Unprocessed) :
          \E resps \in [Unprocessed -> responses] : StartProcess(r, order, resps)
    \/ RouteTicket(r)
    \/ Flush(r)
    \/ Commit(r)
    \/ CommitFails(r)
    \/ Finish(r)

Process(r) == ProcessWith(r, AiOutcomes)

\* /reset, between requests: Analysis.query.delete(), every workload set to
\* seed.INITIAL_WORKLOADS.get(m.full_name, 0), reset_counter(), commit
Reset ==
    /\ \A r \in Requests : req[r].pc \in {"idle", "done"}
    /\ analyses' = [t \in DOMAIN analyses |-> None]
    /\ managers' = [i \in DOMAIN managers |->
                      [managers[i] EXCEPT !.current_workload =
                                              DictGet(INITIAL_WORKLOADS, i, 0)]]
    /\ routing_state' = reset_counter(routing_state)
    /\ call' = [made |-> TRUE, op |-> "reset"]
    /\ UNCHANGED <<offices, result, pre, managers0, returned, ncalls, chosen_log,
                   tickets, req, lock, INITIAL_WORKLOADS>>

\* one /process request on three tickets, with and without offices that
\* have coordinates
InitProcess == InitProcessWith({1, 3}, Len(ProcTickets), {None, Some(0)}, {FALSE})

NextProcess == Process(1)

SpecProcess == InitProcess /\ [][NextProcess]_vars

\* two /process requests at the same time on two tickets (app.run with
\* threaded=True)
InitConcurrent == InitProcessWith({1}, 2, {Some(0)}, {FALSE})

NextConcurrent == \E r \in Requests : Process(r)

SpecConcurrent == InitConcurrent /\ [][NextConcurrent]_vars

\* one /process request and /reset, in a server process that ran seed.run
\* and in one that did not
InitReset == InitProcessWith({1}, 2, {None, Some(0)}, {TRUE, FALSE})

NextReset == Process(1) \/ Reset

SpecReset == InitReset /\ [][NextReset]_vars

(***************************************************************************)
(* Vocabulary of the properties                                            *)
(***************************************************************************)
\* the least element of a non-empty set of positions
Least(S) == CHOOSE i \in S : \A j \in S : i <= j

\* the last call returned (it did not fail with an exception)
Returned == result.made /\ ~result.raised

\* the set of skills of a manager
SkillSet(m) == {m.skills[i] : i \in DOMAIN m.skills}

\* manager m satisfies every hard rule whose guard is true for (t, a)
Qualifies(m, t, a) ==
    /\ t.segment \in {"VIP", "Priority"} => "VIP" \in SkillSet(m)
    /\ a.ticket_type = SmenaDannyh => m.position = GlavnyiSpecialist
    /\ a.language = "KZ" => "KZ" \in SkillSet(m)
    /\ a.language = "ENG" => "ENG" \in SkillSet(m)

\* the managers (positions) of the office with identity id that qualify
QualifiedAt(id, mgrs, t, a) ==
    {i \in 1..Len(mgrs) : mgrs[i].office_id = id /\ Qualifies(mgrs[i], t, a)}

\* the positions of the managers whose workload the last call changed
Changed == {i \in 1..Len(managers) :
              managers[i].current_workload # pre.managers[i].current_workload}

\* the last call left every workload as it was
WorkloadsUntouched == managers = pre.managers

\* the last call left the counter value as it was
CounterUntouched == CounterValue(routing_state) = CounterValue(pre.routing_state)

\* C1: a manager returned by assign_ticket, by round_robin or by
\* nearest_qualified, satisfies every hard rule whose guard is true for the
\* ticket (VIP skill, chief-specialist position, KZ skill, ENG skill)
C1_HardFilterSafety ==
    (Returned /\ result.manager # 0) =>
        /\ result.reason.chosen_by \in {"round_robin", "nearest_qualified"}
        /\ Qualifies(managers[result.manager], call.ticket, call.analysis)

\* a Priority data-change ticket in English was given to a manager of
\* another office
C1_Witness ==
    /\ Returned /\ result.manager # 0
    /\ result.reason.chosen_by = "nearest_qualified"
    /\ call.ticket.segment = "Priority"
    /\ call.analysis.ticket_type = SmenaDannyh
    /\ call.analysis.language = "ENG"

\* C2: a spam ticket returns (no manager, no office) with chosen_by =
\* spam_filter, changes no workload and neither reads nor changes the counter
C2_SpamUntouched ==
    (result.made /\ call.analysis.ticket_type = Spam) =>
        /\ ~result.raised
        /\ result.manager = 0 /\ result.office = 0
        /\ result.reason.chosen_by = "spam_filter"
        /\ WorkloadsUntouched
        /\ routing_state = pre.routing_state
        /\ result.reads = 0 /\ result.incs = 0

\* a VIP spam ticket arrived while no RoutingState row existed (a read of
\* the counter would have created the row)
C2_Witness ==
    /\ result.made /\ call.analysis.ticket_type = Spam
    /\ call.ticket.segment = "VIP"
    /\ pre.routing_state = None
    /\ routing_state = None

\* the Karaganda office of office list A and its two managers, of equal
\* workload, in manager-list order
KaragandaId == OfficesA[OfficeNamed(sKaraganda, OfficesA)].id
ManagerA == Least({i \in 1..Len(ManagersA) : ManagersA[i].office_id = KaragandaId})
ManagerB == Least({i \in 1..Len(ManagersA) :
                     ManagersA[i].office_id = KaragandaId /\ i # ManagerA})

\* the calls logged so far were all round-robin picks at Karaganda
OnlyKaragandaRoundRobin ==
    \A k \in 1..Len(chosen_log) :
        chosen_log[k].office = KaragandaId /\ chosen_log[k].chosen_by = "round_robin"

\* C3: from counter 0 and two eligible managers A and B of equal workload,
\* consecutive calls without active filter, observing counter values
\* 0, 1, 2, 3, choose A, B, A, B
C3_RoundRobinFairness ==
    OnlyKaragandaRoundRobin =>
        \A k \in 1..Len(chosen_log) :
            k <= 4 =>
                /\ chosen_log[k].counter = k - 1
                /\ chosen_log[k].manager = IF k % 2 = 1 THEN ManagerA ELSE ManagerB

\* C4: every manager's workload is its initial workload plus the number of
\* calls that returned that manager; no workload is negative or decreases;
\* a call changes at most one workload, that of the returned manager, by 1
C4_WorkloadAccounting ==
    /\ \A i \in 1..Len(managers) :
          /\ managers[i].current_workload =
                managers0[i].current_workload + returned[i]
          /\ managers[i].current_workload >= 0
    /\ result.made =>
          /\ \A i \in 1..Len(managers) :
                managers[i].current_workload >= pre.managers[i].current_workload
          /\ Cardinality(Changed) <= 1
          /\ Changed = (IF result.manager # 0 THEN {result.manager} ELSE {})
          /\ \A i \in Changed : managers[i].current_workload =
                                   pre.managers[i].current_workload + 1

\* three calls were made: two returned the same manager and the last one
\* ended unassigned
C4_Witness ==
    /\ ncalls = 3
    /\ \E i \in 1..Len(managers) :
          returned[i] = 2 /\ managers[i].current_workload =
                                managers0[i].current_workload + 2
    /\ result.made /\ result.reason.chosen_by = "unassigned"

\* C5 as stated: every call that returns a manager reads the counter once
\* and increments it once
C5_AsStated ==
    (Returned /\ result.manager # 0) =>
        /\ result.reads = 1 /\ result.incs = 1
        /\ CounterValue(routing_state) = CounterValue(pre.routing_state) + 1

\* C5 amended: every call that is not spam reads the counter once; a call
\* that returns a manager by round_robin increments it once, a call that
\* returns a manager by nearest_qualified does not increment it
C5_CounterUse ==
    Returned =>
        /\ call.analysis.ticket_type # Spam => result.reads = 1
        /\ (result.manager # 0 /\ result.reason.chosen_by = "round_robin") =>
              /\ result.incs = 1
              /\ routing_state = Some(CounterValue(pre.routing_state) + 1)
        /\ (result.manager # 0 /\ result.reason.chosen_by = "nearest_qualified") =>
              /\ result.incs = 0
              /\ CounterUntouched

\* a manager was returned by nearest_qualified when the counter was 2
C5_Witness ==
    /\ Returned /\ result.manager # 0
    /\ result.reason.chosen_by = "nearest_qualified"
    /\ CounterValue(pre.routing_state) = 2
    /\ CounterValue(routing_state) = 2

\* C6: the counter grows by 1 in a round_robin call and keeps its value in
\* every other call; with a two-element shortlist and counter value c the
\* manager chosen is the entry c mod 2 of the shortlist
C6_CounterAdvance ==
    Returned =>
        /\ result.reason.chosen_by \in
              {"round_robin", "spam_filter", "nearest_qualified", "unassigned"}
        /\ CounterValue(routing_state) =
              CounterValue(pre.routing_state) +
                 (IF result.reason.chosen_by = "round_robin" THEN 1 ELSE 0)
        /\ Len(result.reason.top2_managers) = 2 =>
              LET c == CounterValue(pre.routing_state)
              IN  result.manager =
                     IF c % 2 = 0 THEN result.reason.top2_managers[1]
                                  ELSE result.reason.top2_managers[2]

\* a round_robin call took the second entry of a two-element shortlist at
\* counter value 1
C6_Witness ==
    /\ Returned /\ result.reason.chosen_by = "round_robin"
    /\ Len(result.reason.top2_managers) = 2
    /\ CounterValue(pre.routing_state) = 1
    /\ result.manager = result.reason.top2_managers[2]
    /\ routing_state = Some(2)

\* the position in the office list of the office the last call resolved
\* (the office named in the explanation)
Resolved == OfficeNamed(result.reason.nearest_office, offices)

\* the positions of the other offices that have a qualified manager
QualifiedOthers ==
    {j \in 1..Len(offices) :
        /\ offices[j].id # offices[Resolved].id
        /\ QualifiedAt(offices[j].id, pre.managers, call.ticket, call.analysis) # {}}

\* the last call was not spam and found no qualified manager at the office
\* it resolved
LocalPoolEmpty ==
    /\ Returned /\ call.analysis.ticket_type # Spam
    /\ QualifiedAt(offices[Resolved].id, pre.managers, call.ticket, call.analysis) = {}

\* C7: when no office has a manager passing all active filters, the call
\* returns no manager and the resolved office, with chosen_by = unassigned,
\* and leaves every workload and the counter value unchanged
C7_Unassigned ==
    (LocalPoolEmpty /\ QualifiedOthers = {}) =>
        /\ result.manager = 0
        /\ result.office = offices[Resolved].id
        /\ result.reason.chosen_by = "unassigned"
        /\ WorkloadsUntouched
        /\ CounterUntouched
        /\ result.incs = 0

\* a data-change ticket in Kazakh found no chief specialist with the KZ
\* skill in any office, at counter value 1
C7_Witness ==
    /\ LocalPoolEmpty /\ QualifiedOthers = {}
    /\ call.analysis.ticket_type = SmenaDannyh
    /\ call.analysis.language = "KZ"
    /\ result.reason.chosen_by = "unassigned"
    /\ pre.routing_state = Some(1)

\* the distance between two offices that both have coordinates
OfficeDistance(o1, o2) ==
    haversine(_office_coords(o1)[1], _office_coords(o1)[2],
              _office_coords(o2)[1], _office_coords(o2)[2])

\* office j comes before office k in the walk as C8 states it: ascending
\* distance from the resolved office, offices without coordinates last,
\* equal distances in office-list order
BeforeAsStated(j, k) ==
    LET r == offices[Resolved]
        key(o) == IF _office_coords(o) = None THEN Inf
                  ELSE IF _office_coords(r) = None THEN 0
                  ELSE OfficeDistance(r, o)
    IN  \/ key(offices[j]) < key(offices[k])
        \/ key(offices[j]) = key(offices[k]) /\ j <= k

\* office j comes before office k in the walk: as stated when the resolved
\* office has coordinates, in office-list order when it has none
BeforeAmended(j, k) ==
    IF _office_coords(offices[Resolved]) = None THEN j <= k ELSE BeforeAsStated(j, k)

\* the manager of the office at position j with the lowest workload among
\* the qualified ones, the first in manager-list order among equals
LowestWorkload(j) ==
    LET q == QualifiedAt(offices[j].id, pre.managers, call.ticket, call.analysis)
    IN  CHOOSE i \in q : \A i2 \in q :
            \/ pre.managers[i].current_workload < pre.managers[i2].current_workload
            \/ /\ pre.managers[i].current_workload = pre.managers[i2].current_workload
               /\ i <= i2

\* the outcome of the fallback when the office at position w wins
FallbackOutcome(w) ==
    /\ result.office = offices[w].id
    /\ result.manager = LowestWorkload(w)
    /\ result.reason.chosen_by = "nearest_qualified"
    /\ managers = [pre.managers EXCEPT
                      ![LowestWorkload(w)].current_workload = @ + 1]
    /\ CounterUntouched
    /\ result.incs = 0

\* C8 as stated: the fallback walks the other offices in ascending distance
\* from the resolved office, offices without coordinates last
C8_AsStated ==
    (LocalPoolEmpty /\ QualifiedOthers # {}) =>
        \E w \in QualifiedOthers :
            /\ \A k \in QualifiedOthers : BeforeAsStated(w, k)
            /\ FallbackOutcome(w)

\* C8 amended: when the resolved office has coordinates the other offices
\* are walked in ascending distance from it (offices without coordinates
\* last, equal distances in office-list order), and when it has none they
\* are walked in office-list order; the first office with a qualified
\* manager wins, its qualified manager of lowest workload (first in list
\* order among equals) is returned with workload + 1, the counter is not
\* advanced, and chosen_by = nearest_qualified
C8_Fallback ==
    (LocalPoolEmpty /\ QualifiedOthers # {}) =>
        \E w \in QualifiedOthers :
            /\ \A k \in QualifiedOthers : BeforeAmended(w, k)
            /\ FallbackOutcome(w)

\* the winning office is nearer to the resolved office than a qualified
\* office that precedes it in the office list, and the manager returned is
\* not the first qualified manager of the winning office
C8_Witness ==
    /\ LocalPoolEmpty
    /\ _office_coords(offices[Resolved]) # None
    /\ result.reason.chosen_by = "nearest_qualified"
    /\ \E w, k \in QualifiedOthers :
          /\ result.office = offices[w].id
          /\ k < w
          /\ OfficeDistance(offices[Resolved], offices[w])
                < OfficeDistance(offices[Resolved], offices[k])
    /\ \E i \in QualifiedAt(result.office, pre.managers, call.ticket, call.analysis) :
          i < result.manager

\* C9 as stated: for a VIP or Priority ticket of any ticket type the
\* priority_score is 10 when assign_ticket returns
C9_AsStated ==
    (Returned /\ call.ticket.segment \in {"VIP", "Priority"}) =>
        result.analysis.priority_score = 10

\* C9 amended: for a VIP or Priority ticket that is not spam the
\* priority_score is 10 when assign_ticket returns; for a spam ticket the
\* priority_score is left as it was
C9_ForcedPriority ==
    Returned =>
        /\ (call.ticket.segment \in {"VIP", "Priority"}
              /\ call.analysis.ticket_type # Spam) =>
                 result.analysis.priority_score = 10
        /\ call.analysis.ticket_type = Spam =>
              result.analysis.priority_score = call.analysis.priority_score

\* a Priority ticket that is not spam came with priority 5 and left with 10
C9_Witness ==
    /\ Returned
    /\ call.ticket.segment = "Priority"
    /\ call.analysis.ticket_type # Spam
    /\ call.analysis.priority_score = 5
    /\ result.analysis.priority_score = 10

\* the name of an office matches a city: equal, or one contained in the
\* other, case-insensitively
NameMatchesCity(name, city) ==
    \/ Lower(name) = Lower(city)
    \/ Contains(Lower(city), Lower(name))
    \/ Contains(Lower(name), Lower(city))

\* the office (position) the cascade of C10 names for a ticket
CascadeOffice(t, a) ==
    LET cityHits == {i \in 1..Len(offices) : NameMatchesCity(offices[i].name, t.city)}
        withCoords == {i \in 1..Len(offices) : _office_coords(offices[i]) # None}
        dist(i) == haversine(a.latitude[1], a.longitude[1],
                             _office_coords(offices[i])[1], _office_coords(offices[i])[2])
        nearest == {i \in withCoords : \A j \in withCoords : dist(i) <= dist(j)}
        astana == {i \in 1..Len(offices) : offices[i].name = sAstana}
    IN  IF t.city # <<>> /\ cityHits # {} THEN Least(cityHits)
        ELSE IF a.latitude # None /\ a.longitude # None THEN Least(nearest)
        ELSE IF _find_office_by_region(t.region, offices) # 0
             THEN _find_office_by_region(t.region, offices)
        ELSE IF astana # {} THEN Least(astana)
        ELSE 1

\* C10: the target office is the first office matching a non-empty city,
\* else the nearest office when both coordinates are given, else the region
\* match, else the office named Astana, else the first office; a ticket
\* with no city, no region and no coordinates resolves to Astana, when
\* present, with the tag no_location_default
C10_OfficeCascade ==
    (Returned /\ call.analysis.ticket_type # Spam) =>
        /\ result.reason.nearest_office =
              offices[CascadeOffice(call.ticket, call.analysis)].name
        /\ result.reason.chosen_by \in {"round_robin", "unassigned"} =>
              result.office = offices[CascadeOffice(call.ticket, call.analysis)].id
        /\ (/\ call.ticket.city = <<>> /\ call.ticket.region = <<>>
            /\ call.analysis.latitude = None /\ call.analysis.longitude = None
            /\ OfficeNamed(sAstana, offices) # 0) =>
              /\ result.reason.nearest_office = sAstana
              /\ \E k \in 1..Len(result.reason.filters_applied) :
                    result.reason.filters_applied[k] = "no_location_default"

\* a ticket whose city matches an office, in another letter case, and whose
\* coordinates are nearest to another office was resolved by its city
C10_Witness ==
    /\ Returned /\ call.analysis.ticket_type # Spam
    /\ call.ticket.city # <<>>
    /\ call.analysis.latitude # None /\ call.analysis.longitude # None
    /\ \E i \in 1..Len(offices) :
          /\ offices[i].name # call.ticket.city
          /\ NameMatchesCity(offices[i].name, call.ticket.city)
          /\ result.reason.nearest_office = offices[i].name
          /\ find_nearest_office(call.analysis.latitude[1],
                                 call.analysis.longitude[1], offices)[1] # i

\* C11: assign_ticket never fails on location resolution: a ticket with
\* coordinates when no office has coordinates, or a ticket without any
\* location match when the office list is empty, still returns a result
C11_NeverRaises ==
    (result.made /\ call.analysis.ticket_type # Spam) => ~result.raised

\* C12: every assign_ticket call that returns ends in exactly one of four
\* outcomes, and chosen_by matches the shape of the result: spam_filter
\* exactly when manager and office are both null, unassigned exactly when
\* the manager is null and an office is returned, round_robin or
\* nearest_qualified exactly when a manager and an office are returned; the
\* office is null only for a spam ticket
C12_OutcomeShape ==
    Returned =>
        /\ result.reason.chosen_by \in
              {"spam_filter", "unassigned", "round_robin", "nearest_qualified"}
        /\ (result.reason.chosen_by = "spam_filter")
              <=> (result.manager = 0 /\ result.office = 0)
        /\ (result.reason.chosen_by = "unassigned")
              <=> (result.manager = 0 /\ result.office # 0)
        /\ (result.reason.chosen_by \in {"round_robin", "nearest_qualified"})
              <=> (result.manager # 0 /\ result.office # 0)
        /\ result.office = 0 => call.analysis.ticket_type = Spam

\* a data-change ticket in English found no chief specialist with the ENG
\* skill anywhere: no manager, the resolved office, chosen_by unassigned
C12_Witness ==
    /\ Returned
    /\ call.analysis.ticket_type = SmenaDannyh
    /\ call.analysis.language = "ENG"
    /\ result.manager = 0 /\ result.office # 0
    /\ result.reason.chosen_by = "unassigned"

\* the last call was for a Mass ticket in Russian, not spam and not a data
\* change, whose city matches an office
PlainCityTicket ==
    /\ Returned
    /\ call.ticket.segment = "Mass"
    /\ call.analysis.language = "RU"
    /\ call.analysis.ticket_type \notin {Spam, SmenaDannyh}
    /\ call.ticket.city # <<>>
    /\ \E i \in 1..Len(offices) : NameMatchesCity(offices[i].name, call.ticket.city)

\* the managers (positions) of the office a city resolves to
CityOfficeManagers ==
    LET o == offices[CascadeOffice(call.ticket, call.analysis)]
    IN  {i \in 1..Len(managers) : managers[i].office_id = o.id}

\* manager i is one of the two managers of pool S that come first by
\* workload before the call, ties in list order
AmongTwoLowest(i, S) ==
    Cardinality({j \in S :
        \/ pre.managers[j].current_workload < pre.managers[i].current_workload
        \/ /\ pre.managers[j].current_workload = pre.managers[i].current_workload
           /\ j < i}) <= 1

\* what the explanation of a plain city ticket holds whatever the list of
\* filters is
CityMatchExplanation ==
    /\ result.reason.nearest_office =
          offices[CascadeOffice(call.ticket, call.analysis)].name
    /\ result.reason.distance_km = Some(0)
    /\ result.reason.candidates_after_filters = Cardinality(CityOfficeManagers)
    /\ CityOfficeManagers # {} =>
          /\ result.reason.chosen_by = "round_robin"
          /\ result.manager \in CityOfficeManagers
          /\ AmongTwoLowest(result.manager, CityOfficeManagers)

\* C13 as stated: a Mass ticket in Russian, not a data change, whose city
\* matches an office has filters_applied = [] in its explanation
C13_AsStated ==
    PlainCityTicket =>
        /\ CityMatchExplanation
        /\ result.reason.filters_applied = <<>>

\* C13: for a Mass ticket in Russian, not a data change, whose city matches
\* an office the explanation has nearest_office = that office, distance_km
\* = 0.0, filters_applied = [city_name_match] (no eligibility tag),
\* candidates_after_filters = the number of managers of that office, and a
\* manager of the office is chosen by round_robin among its two
\* lowest-workload managers
C13_CityMatchScenario ==
    PlainCityTicket =>
        /\ CityMatchExplanation
        /\ result.reason.filters_applied = <<"city_name_match">>

\* a Mass consultation in Russian with city Astana was routed after an
\* earlier call had raised the workload of the first manager of Astana
C13_Witness ==
    /\ PlainCityTicket
    /\ call.ticket.city = sAstana
    /\ result.reason.candidates_after_filters = 3
    /\ result.reason.chosen_by = "round_robin"
    /\ \E i \in CityOfficeManagers :
          pre.managers[i].current_workload > managers0[i].current_workload

\* the managers (positions) of the resolved office that pass every active
\* filter of the last call
LocalPool ==
    QualifiedAt(offices[Resolved].id, pre.managers, call.ticket, call.analysis)

\* the number of managers of pool S that a stable sort by ascending
\* workload puts before manager i
RankIn(i, S) ==
    Cardinality({j \in S :
        \/ pre.managers[j].current_workload < pre.managers[i].current_workload
        \/ /\ pre.managers[j].current_workload = pre.managers[i].current_workload
           /\ j < i})

\* the first two managers of pool S in that order (one for a pool of one)
Shortlist(S) ==
    [k \in 1..(IF Cardinality(S) < 2 THEN Cardinality(S) ELSE 2) |->
        CHOOSE i \in S : RankIn(i, S) = k - 1]

\* C17: when the target office has a manager passing every active filter,
\* the pool is stably sorted by ascending workload, the shortlist is its
\* first two entries (one for a pool of one), and the manager chosen, by
\* round_robin, is shortlist[c mod len(shortlist)] for the counter value c
\* read when the call began
C17_LocalRoundRobin ==
    (Returned /\ call.analysis.ticket_type # Spam /\ LocalPool # {}) =>
        /\ result.reason.chosen_by = "round_robin"
        /\ result.reason.top2_managers = Shortlist(LocalPool)
        /\ result.manager =
              Shortlist(LocalPool)[(CounterValue(pre.routing_state)
                                      % Len(Shortlist(LocalPool))) + 1]

\* at an odd counter value, a pool of three whose first manager in list
\* order no longer has the lowest workload: the second shortlist entry won
C17_Witness ==
    /\ Returned /\ call.analysis.ticket_type # Spam
    /\ Cardinality(LocalPool) = 3
    /\ result.reason.top2_managers[1] # Least(LocalPool)
    /\ CounterValue(pre.routing_state) % 2 = 1
    /\ result.manager = result.reason.top2_managers[2]

\* the eligibility tags of the last explanation, in the order recorded
EligibilityTags ==
    SelectSeq(result.reason.filters_applied,
              LAMBDA tag : tag \in {"VIP_skill", "data_change_position",
                                    "KZ_language", "ENG_language"})

\* the tags of the rules whose guard is true for the last call, in the
\* order VIP_skill, data_change_position, language
GuardedTags ==
    (IF call.ticket.segment \in {"VIP", "Priority"} THEN <<"VIP_skill">> ELSE <<>>)
    \o (IF call.analysis.ticket_type = SmenaDannyh
        THEN <<"data_change_position">> ELSE <<>>)
    \o (IF call.analysis.language = "KZ" THEN <<"KZ_language">>
        ELSE IF call.analysis.language = "ENG" THEN <<"ENG_language">>
        ELSE <<>>)

\* rule k of the three eligibility rules applied to a set S of managers
ApplyRule(k, S) ==
    IF k = 1
    THEN IF call.ticket.segment \in {"VIP", "Priority"}
         THEN {i \in S : "VIP" \in SkillSet(pre.managers[i])} ELSE S
    ELSE IF k = 2
    THEN IF call.analysis.ticket_type = SmenaDannyh
         THEN {i \in S : pre.managers[i].position = GlavnyiSpecialist} ELSE S
    ELSE IF call.analysis.language \in {"KZ", "ENG"}
         THEN {i \in S : call.analysis.language \in SkillSet(pre.managers[i])}
         ELSE S

\* the orders in which the three rules can be applied
RuleOrders == {p \in [1..3 -> 1..3] : \A j, k \in 1..3 : p[j] = p[k] => j = k}

\* the candidate count of the explanation is the size of the pool of the
\* resolved office filtered by the rules in any order
AnyOrderSamePool ==
    LET pool0 == {i \in 1..Len(pre.managers) :
                    pre.managers[i].office_id = offices[Resolved].id}
    IN  \A p \in RuleOrders :
            /\ ApplyRule(p[3], ApplyRule(p[2], ApplyRule(p[1], pool0))) = LocalPool
            /\ result.reason.candidates_after_filters = Cardinality(LocalPool)

ResolvableCoords(o) ==
    LET inTable == {k \in 1..Len(OFFICE_COORDS) : OFFICE_COORDS[k][1] = o.name}
    IN  IF inTable # {} THEN OFFICE_COORDS[Least(inTable)][2]
        ELSE IF o.latitude # None /\ o.longitude # None
        THEN <<o.latitude[1], o.longitude[1]>>
        ELSE None

\* the distance from the client coordinates of the last call to office i
ClientDistance(i) ==
    haversine(call.latitude, call.longitude,
              ResolvableCoords(offices[i])[1], ResolvableCoords(offices[i])[2])

\* the offices (positions) with resolvable coordinates
WithCoords == {i \in 1..Len(offices) : ResolvableCoords(offices[i]) # None}

\* C18: find_nearest_office returns the office with the smallest distance
\* to the client coordinates among the offices with resolvable coordinates
\* (hardcoded table first, stored coordinates second), and its distance; an
\* office without coordinates is never returned, and among offices at the
\* same smallest distance the first of the office list is returned
C18_NearestOffice ==
    (result.made /\ WithCoords # {}) =>
        /\ result.best_office \in WithCoords
        /\ \A j \in WithCoords :
              /\ ClientDistance(result.best_office) <= ClientDistance(j)
              /\ j < result.best_office =>
                    ClientDistance(result.best_office) < ClientDistance(j)
        /\ result.distance_km = Round1(ClientDistance(result.best_office))

\* from latitude 51, Karaganda and Semey are equally far and Almaty, whose
\* stored latitude is 52 too, is at its table coordinates: the call passed
\* the office without coordinates and Almaty and returned Karaganda
C18_Witness ==
    /\ result.made
    /\ Len(offices) = 4
    /\ offices[1].name = sOrda /\ offices[2].name = sAlmaty
    /\ offices[3].name = sKaraganda /\ offices[4].name = sSemey
    /\ result.best_office = 3
    /\ ClientDistance(3) = ClientDistance(4)
    /\ offices[2].latitude = offices[4].latitude

\* the first alias (position in REGION_TO_OFFICE) that matches the region
\* text of the last call: the exact key if the normalized text is a key,
\* else the first alias in table order that contains the text or is
\* contained in it; 0 when no alias matches
FirstMatchingAlias ==
    LET norm == Strip(Lower(call.region))
        T == REGION_TO_OFFICE
        exact == {k \in 1..Len(T) : T[k][1] = norm}
        partial == {k \in 1..Len(T) :
                      Contains(norm, T[k][1]) \/ Contains(T[k][1], norm)}
    IN  IF exact # {} THEN Least(exact)
        ELSE IF partial # {} THEN Least(partial)
        ELSE 0

\* C19: _find_office_by_region takes the first matching alias (the exact
\* key, else the first alias in table order that contains the text or is
\* contained in it) and returns the target office of that alias, and none
\* when nothing matches or when that office is not in the office list
C19_FirstAliasOnly ==
    (result.made /\ call.region # <<>>) =>
        result.office =
            IF FirstMatchingAlias = 0 THEN 0
            ELSE OfficeNamed(REGION_TO_OFFICE[FirstMatchingAlias][2], offices)

\* every request has returned
AllDone == \A r \in Requests : req[r].pc = "done"

\* the committed assignments (positions in the log of commits) that were
\* chosen by round_robin
RoundRobinCommits ==
    {k \in 1..Len(chosen_log) : chosen_log[k].chosen_by = "round_robin"}

\* C14: when two /process requests run concurrently, no two committed
\* assignments acted on the same value of the round-robin counter, and
\* after both requests the counter is its starting value, 0, plus the number
\* of committed round_robin assignments
C14_CounterAtomicity ==
    /\ \A j, k \in RoundRobinCommits :
          j # k => chosen_log[j].counter # chosen_log[k].counter
    /\ AllDone =>
          CounterValue(routing_state) = Cardinality(RoundRobinCommits)

\* the tickets whose Analysis row names manager m
AssignedTo(m) ==
    {t \in DOMAIN analyses : analyses[t] # None /\ analyses[t][1].manager = m}

\* the tickets whose Analysis row was chosen by round_robin
RoundRobinRows ==
    {t \in DOMAIN analyses :
        analyses[t] # None /\ analyses[t][1].chosen_by = "round_robin"}

\* C15: in one /process batch every ticket is committed or rolled back
\* before the next assign_ticket call starts; a ticket whose routing or
\* commit failed leaves no workload increment, no counter increment and no
\* Analysis row, and the rows committed for earlier tickets stay as they
\* were committed: every committed workload is the baseline plus the number
\* of Analysis rows that name the manager, and the counter is the number
\* of round_robin rows
C15_PerTicketAtomicity ==
    /\ \A m \in DOMAIN managers :
          managers[m].current_workload =
              managers0[m].current_workload + Cardinality(AssignedTo(m))
    /\ CounterValue(routing_state) = Cardinality(RoundRobinRows)
    /\ \A k \in DOMAIN chosen_log :
          analyses[chosen_log[k].ticket] =
              Some([manager |-> chosen_log[k].manager,
                    office |-> chosen_log[k].office,
                    chosen_by |-> chosen_log[k].chosen_by])
    /\ \A t \in req[1].failed : analyses[t] = None
    /\ req[1].pc = "route" => ~req[1].sess.loaded

\* a batch on offices where no call raises: a ticket was committed to a
\* manager by round_robin, the commit of the next ticket, routed by
\* round_robin too, failed, and the ticket after it was committed
C15_Witness ==
    /\ req[1].pc = "done"
    /\ OfficeNamed(sAstana, offices) # 0
    /\ Len(req[1].tickets) = Len(ProcTickets)
    /\ analyses[req[1].tickets[1]] # None
    /\ analyses[req[1].tickets[1]][1].chosen_by = "round_robin"
    /\ req[1].tickets[2] \in req[1].failed
    /\ req[1].ai[req[1].tickets[2]].ticket_type = Konsultaciya
    /\ analyses[req[1].tickets[3]] # None
    /\ analyses[req[1].tickets[3]][1].manager # 0

\* C16: after /reset, in a server process that ran seed.run or in one that
\* never did, there is no Analysis row, the round-robin counter is 0, and
\* every manager's workload is the baseline recorded when the data was
\* seeded
C16_ResetRestoresBaseline ==
    (call.made /\ call.op = "reset") =>
        /\ \A t \in DOMAIN analyses : analyses[t] = None
        /\ CounterValue(routing_state) = 0
        /\ \A m \in DOMAIN managers :
              managers[m].current_workload = managers0[m].current_workload

\* C25: whenever assign_ticket returns a manager it returns an office too,
\* and that office is the manager's home office: the resolved office on
\* the round_robin path, an office other than the resolved one on the
\* nearest_qualified path
C25_HomeOffice ==
    (Returned /\ result.manager # 0) =>
        /\ result.office # 0
        /\ managers[result.manager].office_id = result.office
        /\ result.reason.chosen_by = "round_robin" =>
              result.office = offices[Resolved].id
        /\ result.reason.chosen_by = "nearest_qualified" =>
              result.office # offices[Resolved].id

\* a VIP ticket of the city Astana, where no manager has the VIP skill,
\* went to a manager of the office Karaganda
C25_Witness ==
    /\ Returned /\ result.manager # 0
    /\ call.ticket.segment = "VIP"
    /\ result.reason.nearest_office = sAstana
    /\ result.reason.chosen_by = "nearest_qualified"
    /\ result.office = KaragandaId
    /\ managers[result.manager].office_id = KaragandaId

\* the last call was for a ticket, not spam, with no city, no coordinates
\* and a region that is empty or only whitespace
NoLocationTicket ==
    /\ Returned /\ call.analysis.ticket_type # Spam
    /\ call.ticket.city = <<>>
    /\ call.analysis.latitude = None /\ call.analysis.longitude = None
    /\ Strip(call.ticket.region) = <<>>

\* C28: a ticket with empty city, null coordinates and a region that is
\* empty or only whitespace is resolved by the default rule (tag
\* no_location_default, the office Astana when present), never by
\* region_match
C28_BlankRegionDefault ==
    NoLocationTicket =>
        /\ \E k \in 1..Len(result.reason.filters_applied) :
              result.reason.filters_applied[k] = "no_location_default"
        /\ \A k \in 1..Len(result.reason.filters_applied) :
              result.reason.filters_applied[k] # "region_match"
        /\ OfficeNamed(sAstana, offices) # 0 =>
              result.reason.nearest_office = sAstana

\* the greatest difference between the workloads of two managers of one
\* office is at most 2
WithinTwo ==
    \A i, j \in 1..Len(managers) :
        managers[i].office_id = managers[j].office_id =>
            managers[i].current_workload - managers[j].current_workload <= 2

\* C26: over any sequence of sequential calls for tickets without active
\* filter, from equal workloads in every office and with calls routed to
\* other offices in between, the workloads of two managers of one office
\* never differ by more than 2
C26_LoadBalance == WithinTwo

(***************************************************************************)
(* The round-robin counter on its own: _get_rr_counter,                    *)
(* _increment_rr_counter and reset_counter called in any order on the      *)
(* RoutingState row.  call is the operation just made, pre the row before  *)
(* it and the operation made before it, result the value a read returned,  *)
(* chosen_log the operations so far.                                       *)
(***************************************************************************)
MaxCounterOps == 5

CounterOp(op, value, state) ==
    /\ ncalls < MaxCounterOps
    /\ ncalls' = ncalls + 1
    /\ call' = [made |-> TRUE, op |-> op]
    /\ pre' = [made |-> TRUE, routing_state |-> routing_state,
               op |-> IF call.made THEN call.op ELSE "none"]
    /\ result' = [made |-> TRUE, value |-> value]
    /\ routing_state' = state
    /\ chosen_log' = Append(chosen_log, [op |-> op, counter |-> CounterValue(state)])
    /\ UNCHANGED <<offices, managers, managers0, returned, procvars>>

GetCounter ==
    \E r \in {_get_rr_counter(routing_state)} : CounterOp("get", Some(r[1]), r[2])

IncrementCounter ==
    CounterOp("increment", None, _increment_rr_counter(routing_state))

ResetCounter ==
    CounterOp("reset", None, reset_counter(routing_state))

NextCounter == GetCounter \/ IncrementCounter \/ ResetCounter

SpecCounter == InitWith({1}) /\ [][NextCounter]_vars

\* C21: _get_rr_counter returns the stored value without changing it and
\* 0 when no state is stored; _increment_rr_counter raises the value by
\* exactly 1 (to 1 when no state is stored); reset_counter sets it to 0;
\* the value never decreases except by reset_counter; a read right after a
\* reset returns 0
C21_CounterOperations ==
    call.made =>
        LET before == CounterValue(pre.routing_state)
            after == CounterValue(routing_state)
        IN  /\ call.op = "get" =>
                  /\ result.value = Some(before)
                  /\ after = before
                  /\ pre.routing_state = None => result.value = Some(0)
                  /\ pre.op = "reset" => result.value = Some(0)
            /\ call.op = "increment" =>
                  /\ after = before + 1
                  /\ pre.routing_state = None => routing_state = Some(1)
            /\ call.op = "reset" => after = 0
            /\ call.op # "reset" => after >= before

\* a read that follows a reset of a counter that had been advanced
C21_Witness ==
    /\ call.made /\ call.op = "get" /\ pre.op = "reset"
    /\ result.value = Some(0)
    /\ \E k \in 1..Len(chosen_log) :
          chosen_log[k].op = "increment" /\ chosen_log[k].counter >= 2

(***************************************************************************)
(* /process with a language model that fails, and two /process requests    *)
(* for tickets that suit the same manager.                                 *)
(***************************************************************************)
InitClassify == InitProcessWith({1}, 2, {Some(0)}, {FALSE})

NextClassify == ProcessWith(1, ClassifierResponses)

SpecClassify == InitClassify /\ [][NextClassify]_vars

\* the replies that send the tickets of Karaganda and of Semey to the one
\* manager of Karaganda who speaks English
OverlapOutcomes ==
    { Json(Konsultaciya, "Neutral", Some(5), "RU"),
      Json(Konsultaciya, "Neutral", Some(5), "ENG") }

NextOverlap == \E r \in Requests : ProcessWith(r, OverlapOutcomes)

SpecOverlap == InitConcurrent /\ [][NextOverlap]_vars

\* the dict is the neutral fallback classification
NeutralFallback(dict) ==
    /\ dict.ticket_type = Konsultaciya /\ dict.sentiment = "Neutral"
    /\ dict.priority_score = 5 /\ dict.language = "RU"
    /\ dict.latitude = None /\ dict.longitude = None

\* C23: for every ticket of a /process run, whether its classification
\* succeeds, analyze_ticket returns its fallback, or the worker raises, the
\* routing phase has a classification (no ticket is skipped for want of
\* one, and every ticket ends with an Analysis row or a routing failure),
\* and when the classification failed it is the neutral fallback
\* (Konsultaciya, Neutral, 5, RU, no coordinates)
C23_ClassifierFailures ==
    \A r \in Requests :
        \A k \in DOMAIN req[r].tickets :
            LET q == req[r]
                t == q.tickets[k]
            IN  /\ t \in DOMAIN q.ai
                /\ t \notin q.skipped
                /\ q.ai[t].ticket_type \in TICKET_TYPES
                /\ q.ai[t].priority_score \in 1..10
                /\ q.resp[t].kind # "json" => NeutralFallback(q.ai[t])
                /\ q.pc = "done" => analyses[t] # None \/ t \in q.failed

\* a run is over in which one ticket's worker raised and the other's
\* analyze_ticket returned its fallback, and both tickets have their row
C23_Witness ==
    /\ req[1].pc = "done" /\ Len(req[1].tickets) = 2
    /\ req[1].resp[1].kind = "no_priority" /\ NeutralFallback(req[1].ai[1])
    /\ req[1].resp[2].kind = "api_error" /\ NeutralFallback(req[1].ai[2])
    /\ analyses[1] # None /\ analyses[2] # None

(***************************************************************************)
(* /process requested again and again, one request after the other.        *)
(***************************************************************************)
\* the request is over and the next one arrives
NextRequest(r) ==
    /\ req[r].pc = "done"
    /\ req' = [req EXCEPT ![r] = Idle]
    /\ UNCHANGED <<offices, managers, routing_state, call, result, pre, managers0,
                   returned, ncalls, chosen_log, tickets, analyses, lock,
                   INITIAL_WORKLOADS>>

NextRerun == Process(1) \/ NextRequest(1)

SpecRerun == InitConcurrent /\ [][NextRerun]_vars

\* every ticket has an Analysis row
AllProcessed == \A t \in DOMAIN analyses : analyses[t] # None

\* C22: /process is idempotent: a run takes up only tickets without an
\* Analysis row, a row once written is never replaced or doubled by a later
\* run, and a run started when every ticket has a row changes no workload,
\* no counter and no row
C22_Idempotence ==
    [][ /\ \A r \in Requests :
             (req[r].pc = "idle" /\ req'[r].pc # "idle") =>
                 \A k \in DOMAIN req'[r].tickets :
                     analyses[req'[r].tickets[k]] = None
        /\ \A t \in DOMAIN analyses :
             analyses[t] # None => analyses'[t] = analyses[t]
        /\ \A j, k \in DOMAIN chosen_log' :
             j # k => chosen_log'[j].ticket # chosen_log'[k].ticket
        /\ AllProcessed =>
             UNCHANGED <<managers, routing_state, analyses, chosen_log>>
      ]_vars

\* a run that started when both tickets had their row is over; the rows
\* were written by one earlier run
C22_Witness ==
    /\ AllProcessed /\ Len(chosen_log) = 2
    /\ req[1].pc = "done" /\ req[1].tickets = <<>>

\* C27: when two /process requests run concurrently over overlapping sets
\* of tickets, every ticket ends with at most one Analysis row, and after
\* both requests every manager's committed workload is its starting value
\* plus the number of Analysis rows that name the manager
C27_WorkloadRecordConsistency ==
    /\ \A j, k \in DOMAIN chosen_log :
          j # k => chosen_log[j].ticket # chosen_log[k].ticket
    /\ AllDone =>
          \A m \in DOMAIN managers :
              managers[m].current_workload =
                  managers0[m].current_workload + Cardinality(AssignedTo(m))

(***************************************************************************)
(* The API calls of one analyze_ticket: _call_with_retry with the image    *)
(* and, when that invocation raised and there is an image, text-only.      *)
(* call is the position of analyze_ticket: whether the ticket has an       *)
(* image, the invocation (1 or 2), the attempt of the loop, and pc:        *)
(* "calling", "returned" (a reply was obtained) or "fallback"              *)
(* (FALLBACK.copy() was returned).  chosen_log has one entry per API call: *)
(* its invocation and attempt, what the API did, and the seconds slept     *)
(* after it.                                                               *)
(***************************************************************************)
max_retries == 5

\* what one API call does: it returns a reply, or raises an exception with
\* one of these texts
ApiOk == <<"o", "k">>
ApiErrors ==
    { <<"E", "r", "r", "o", "r", " ", "4", "2", "9">>,
      <<"r", "a", "t", "e", "_", "l", "i", "m", "i", "t", "_", "e", "x">>,
      <<"E", "r", "r", "o", "r", " ", "5", "0", "0">>,
      <<"t", "i", "m", "e", "o", "u", "t">> }

\* "429" in err_str or "rate_limit" in err_str
IsRateLimit(err_str) ==
    \/ Contains(err_str, <<"4", "2", "9">>)
    \/ Contains(err_str, <<"r", "a", "t", "e", "_", "l", "i", "m", "i", "t">>)

\* the wait growing by two seconds per attempt
Wait_Linear(attempt) == 2 * attempt + 1

\* wait = 2 ** attempt + 1
Wait(attempt) == 2 ^ attempt + 1

\* analyze_ticket reaches its first _call_with_retry
StartAnalyze(image) ==
    /\ ~call.made
    /\ call' = [made |-> TRUE, image |-> image, invocation |-> 1, attempt |-> 0,
                pc |-> "calling"]
    /\ UNCHANGED <<offices, managers, routing_state, result, pre, managers0,
                   returned, ncalls, chosen_log, procvars>>

\* one pass of the loop of _call_with_retry: the API call and what follows
\* it.  When the invocation raises, analyze_ticket invokes text-only if
\* this was the invocation with an image, and returns its fallback if not.
ApiAttempt(outcome) ==
    /\ call.made /\ call.pc = "calling"
    /\ call.attempt < max_retries
    /\ LET rate_limited == outcome # ApiOk /\ IsRateLimit(outcome)
           raises == \/ outcome # ApiOk /\ ~rate_limited
                     \/ rate_limited /\ call.attempt + 1 = max_retries
       IN  /\ chosen_log' = Append(chosen_log,
                  [invocation |-> call.invocation, attempt |-> call.attempt,
                   outcome |-> outcome,
                   wait |-> IF rate_limited THEN Wait(call.attempt) ELSE 0])
           /\ call' = IF outcome = ApiOk THEN [call EXCEPT !.pc = "returned"]
                      ELSE IF ~raises THEN [call EXCEPT !.attempt = @ + 1]
                      ELSE IF call.invocation = 1 /\ call.image
                      THEN [call EXCEPT !.invocation = 2, !.attempt = 0]
                      ELSE [call EXCEPT !.pc = "fallback"]
    /\ ncalls' = ncalls + 1
    /\ UNCHANGED <<offices, managers, routing_state, result, pre, managers0,
                   returned, procvars>>

NextRetry ==
    \/ \E image \in BOOLEAN : StartAnalyze(image)
    \/ \E outcome \in {ApiOk} \cup ApiErrors : ApiAttempt(outcome)

SpecRetry == InitWith({1}) /\ [][NextRetry]_vars

\* the API call of a log entry was answered with a rate-limit error
RateLimited(e) ==
    e.outcome \in { <<"E", "r", "r", "o", "r", " ", "4", "2", "9">>,
                     <<"r", "a", "t", "e", "_", "l", "i", "m", "i", "t", "_", "e", "x">> }

\* C24: _call_with_retry makes at most 5 attempts per invocation, goes on
\* to the next attempt only after a rate-limit error (after attempt k it
\* waits 2^k + 1 seconds), re-raises any other error without retrying and
\* raises after the fifth rate-limited attempt; analyze_ticket invokes it
\* at most twice, the second time only after a failed invocation with an
\* image, so one classification makes at most 10 API calls
C24_RetryBound ==
    /\ Len(chosen_log) <= 10 /\ ncalls = Len(chosen_log)
    /\ Len(chosen_log) = 10 => call.pc \in {"returned", "fallback"}
    /\ \A j \in DOMAIN chosen_log :
          LET e == chosen_log[j]
          IN  /\ e.attempt \in 0..4 /\ e.invocation \in {1, 2}
              /\ e.wait = IF RateLimited(e) THEN 2 ^ e.attempt + 1 ELSE 0
              /\ j = 1 => e.invocation = 1 /\ e.attempt = 0
              /\ j + 1 \in DOMAIN chosen_log =>
                    LET n == chosen_log[j + 1]
                    IN  /\ e.outcome # ApiOk
                        /\ n.invocation = e.invocation =>
                              RateLimited(e) /\ n.attempt = e.attempt + 1
                        /\ n.invocation # e.invocation =>
                              /\ call.image
                              /\ e.invocation = 1 /\ n.invocation = 2
                              /\ n.attempt = 0
                              /\ ~RateLimited(e) \/ e.attempt = 4
                        /\ ~RateLimited(e) => n.invocation # e.invocation
              /\ (j = Len(chosen_log) /\ call.pc = "calling") =>
                    \/ RateLimited(e) /\ call.attempt = e.attempt + 1
                                      /\ call.invocation = e.invocation
                    \/ call.attempt = 0 /\ call.invocation = 2 /\ call.image
              /\ (j = Len(chosen_log) /\ call.pc = "fallback") =>
                    /\ e.outcome # ApiOk
                    /\ ~RateLimited(e) \/ e.attempt = 4
                    /\ e.invocation = IF call.image THEN 2 ELSE 1
              /\ (j = Len(chosen_log) /\ call.pc = "returned") =>
                    e.outcome = ApiOk

\* a classification of a ticket with an image ended with the fallback after
\* ten rate-limited API calls, the last wait being 17 seconds
C24_Witness ==
    /\ call.made /\ call.image /\ call.pc = "fallback"
    /\ Len(chosen_log) = 10
    /\ chosen_log[10].wait = 17

====
